---------------------------- MODULE Spec2Model ----------------------------
(***************************************************************************)
(* A model of s1vm: the operand stack and its frames (src/src/stack.rs),   *)
(* the registry and the VM facade (src/src/vm.rs), the threaded            *)
(* interpreter (src/src/function.rs), its translator (src/src/isa.rs) and  *)
(* the closure back-end (src/src/compiler.rs).                             *)
(*                                                                         *)
(* Every component has its own specification over its own variables:       *)
(*   SpecStack    the Stack API driven by arbitrary sequences of calls     *)
(*   SpecVM       VM::load_file / VM::spawn / drop of a VMInstance         *)
(*   SpecThreaded Store::call running the threaded interpreter             *)
(*   SpecClosure  the closure translator and Block::run                    *)
(*   SpecInstances, SpecRecursion  instances of one VM; self-recursion     *)
(*   SpecNumeric  the integer operators of i32_ops and i64_ops             *)
(*   SpecReturn   the result Store::call makes of a function's return cell *)
(*   SpecSink     isa::compile_function translating well-nested bodies      *)
(*   SpecBranch   run_function executing translated if/else bodies          *)
(*   SpecCompile  Compiler::compile_block translating nested blocks         *)
(***************************************************************************)
EXTENDS Integers, Sequences, FiniteSets, TLC

VARIABLES
  st,        \* SpecStack: the Stack object [stack, bp, limit]
  saved,     \* SpecStack: the StackPtr values the callers hold, innermost last,
             \*            each with the caller frame's number of params+locals
  nloc,      \* SpecStack: params + locals of the current frame (what the engine knows)
  last,      \* SpecStack: the last operation, its arguments, result and pre-state
  state,     \* SpecVM: the State behind the VM's Arc [funcs, module_instances, modules]
  live,      \* SpecVM: the VMInstances alive, each holding a clone of the Arc
  spawned,   \* SpecVM: VM::spawn has produced an instance at some point
  loadedFrom,\* SpecVM: the file each registered module name was loaded from
  vmLast,    \* SpecVM: the last facade call, its result and the state before it
  store,     \* SpecThreaded: the instance's Store.stack [stack, bp, limit]
  callLast,  \* SpecThreaded: the last call, its arguments and its result
  cm,        \* SpecClosure: the closure back-end at work on a call [s, l0, k, mode, ..]
  cLast,     \* SpecClosure: the last call that finished, its arguments and result
  brAt,      \* SpecClosure: the pending Branch, as the thunk that raised it saw it
  vmi,       \* SpecInstances: the VMInstances, each with its Store and its calls so far
  shared,    \* SpecInstances: the State behind the Arc the VM and the instances hold
  rec,       \* SpecRecursion: one VMInstance of a module of self-recursive functions
  num,       \* SpecNumeric: the integer operator applied last, its operands and result
  rv,        \* SpecReturn: what func.call returned to Store::call and the call's result
  sink,      \* SpecSink: compile_function of isa.rs at work on a body [s, refs, n, ..]
  exec,      \* SpecBranch: run_function at work on a translated body [m, trace, ..]
  comp       \* SpecCompile: compile_block of compiler.rs at work on a body [code, cs, ..]

stackVars == <<st, saved, nloc, last>>
vmVars == <<state, live, spawned, loadedFrom, vmLast>>

thrVars == <<store, callLast>>
cloVars == <<cm, cLast, brAt>>
insVars == <<vmi, shared>>
recVars == <<rec>>
numVars == <<num>>
retVars == <<rv>>
sinkVars == <<sink>>
branchVars == <<exec>>
compileVars == <<comp>>

vars == <<st, saved, nloc, last, state, live, spawned, loadedFrom, vmLast,
          store, callLast, cm, cLast, brAt, vmi, shared, rec, num, rv, sink,
          exec, comp>>

\* What a step of one component leaves alone: the other components' variables.
notStack ==
  <<vmVars, thrVars, cloVars, insVars, recVars, numVars, retVars, sinkVars, branchVars,
    compileVars>>
notVM ==
  <<stackVars, thrVars, cloVars, insVars, recVars, numVars, retVars, sinkVars, branchVars,
    compileVars>>
notThreaded ==
  <<stackVars, vmVars, cloVars, insVars, recVars, numVars, retVars, sinkVars, branchVars,
    compileVars>>
notClosure ==
  <<stackVars, vmVars, thrVars, insVars, recVars, numVars, retVars, sinkVars, branchVars,
    compileVars>>
notInstances ==
  <<stackVars, vmVars, thrVars, cloVars, recVars, numVars, retVars, sinkVars, branchVars,
    compileVars>>
notRecursion ==
  <<stackVars, vmVars, thrVars, cloVars, insVars, numVars, retVars, sinkVars, branchVars,
    compileVars>>
notNumeric ==
  <<stackVars, vmVars, thrVars, cloVars, insVars, recVars, retVars, sinkVars, branchVars,
    compileVars>>
notReturn ==
  <<stackVars, vmVars, thrVars, cloVars, insVars, recVars, numVars, sinkVars, branchVars,
    compileVars>>
notBranch ==
  <<stackVars, vmVars, thrVars, cloVars, insVars, recVars, numVars, retVars, sinkVars,
    compileVars>>
notCompile ==
  <<stackVars, vmVars, thrVars, cloVars, insVars, recVars, numVars, retVars, sinkVars,
    branchVars>>
notSink ==
  <<stackVars, vmVars, thrVars, cloVars, insVars, recVars, numVars, retVars, branchVars,
    compileVars>>

-----------------------------------------------------------------------------
(* Bounds of the model.                                                    *)

\* Stack::new_with_limit(StackLimit): the limit the modelled stacks are built with.
StackLimit == 2
\* The deepest nesting of push_frame the Stack API driver performs.
MaxFrames == 2
\* The largest params / locals / count argument the driver passes.
MaxArg == StackLimit - 1

\* The Stack API driver tells two cell values apart: the zero that resize()
\* fills with, and a non-zero value.
Vals == {0, 1}

-----------------------------------------------------------------------------
(* Trap<T>: Ok(val) with the stack after the call, or Err(trap) with the   *)
(* stack as the failed call left it.                                       *)

Ok(s, v) == [ok |-> TRUE, trap |-> "none", val |-> v, s |-> s]
Err(s, t) == [ok |-> FALSE, trap |-> t, val |-> 0, s |-> s]

\* Vec::resize(new_len, StackValue(0)): truncate, or extend with zero cells.
resize(v, n) ==
  IF n <= Len(v) THEN SubSeq(v, 1, n)
  ELSE v \o [i \in 1..(n - Len(v)) |-> 0]

\* Stack::new_with_limit
new_with_limit(limit) == [stack |-> <<>>, bp |-> 0, limit |-> limit]

\* Stack::frame_size: len.checked_sub(bp)
frame_size(s) ==
  IF Len(s.stack) >= s.bp THEN Ok(s, Len(s.stack) - s.bp)
  ELSE Err(s, "StackOverflow")

\* Stack::check_overflow: limit.checked_sub(len).and_then(|x| x.checked_sub(need))
check_overflow(s, need) ==
  IF s.limit >= Len(s.stack) /\ s.limit - Len(s.stack) >= need
  THEN Ok(s, Len(s.stack))
  ELSE Err(s, "StackOverflow")

\* A push_frame that wants one cell more than the params in the frame.
push_frame_strict(s, params) ==
  LET cur == frame_size(s) IN
  IF ~cur.ok THEN cur
  ELSE IF cur.val <= params THEN Err(s, "StackOverflow")
  ELSE Ok([s EXCEPT !.bp = Len(s.stack) - params], s.bp)

\* Stack::push_frame: the value is the old bp.
push_frame(s, params) ==
  LET cur == frame_size(s) IN
  IF ~cur.ok THEN cur
  ELSE IF cur.val < params THEN Err(s, "StackOverflow")
  ELSE Ok([s EXCEPT !.bp = Len(s.stack) - params], s.bp)

\* Stack::reserve_locals: checked_add only guards usize overflow.
reserve_locals(s, locals) ==
  IF locals > 0
  THEN Ok([s EXCEPT !.stack = resize(s.stack, Len(s.stack) + locals)], 0)
  ELSE Ok(s, 0)

\* A pop_frame that gives bp back to the caller and keeps every cell.
pop_frame_keep(s, old_bp) == [s EXCEPT !.bp = old_bp]

\* Stack::pop_frame
pop_frame(s, old_bp) ==
  [s EXCEPT !.stack = resize(s.stack, s.bp), !.bp = old_bp]

\* From<Value> for StackValue, on the non-negative I64 values of the model:
\* `v as u64` keeps the number.
StackValue_from(val) == val.v

\* A push_params that pushes value after value until the limit stops it.
push_params_partial(s, params) ==
  LET room == IF s.limit >= Len(s.stack) THEN s.limit - Len(s.stack) ELSE 0
      fit == IF Len(params) <= room THEN Len(params) ELSE room
      s1 == [s EXCEPT !.stack = s.stack \o [i \in 1..fit |-> StackValue_from(params[i])]]
  IN IF fit < Len(params) THEN Err(s1, "StackOverflow") ELSE Ok(s1, Len(s.stack))

\* Stack::push_params: the value is the original len.
push_params(s, params) ==
  LET chk == check_overflow(s, Len(params)) IN
  IF ~chk.ok THEN chk
  ELSE Ok([s EXCEPT !.stack = s.stack \o [i \in 1..Len(params) |-> StackValue_from(params[i])]],
          chk.val)

\* Stack::drop_values
drop_values(s, count) ==
  IF Len(s.stack) >= count
  THEN Ok([s EXCEPT !.stack = resize(s.stack, Len(s.stack) - count)], 0)
  ELSE Err(s, "StackOverflow")

\* Stack::check_local: bp.checked_add(local); the value is the 0-based index.
check_local(s, local) == Ok(s, s.bp + local)

\* Stack::set_local_val: Vec::get_mut(idx)
set_local_val(s, local, val) ==
  LET idx == check_local(s, local) IN
  IF ~idx.ok THEN idx
  ELSE IF idx.val < Len(s.stack)
  THEN Ok([s EXCEPT !.stack[idx.val + 1] = val], 0)
  ELSE Err(s, "StackOverflow")

\* Stack::get_local_val: Vec::get(idx)
get_local_val(s, local) ==
  LET idx == check_local(s, local) IN
  IF ~idx.ok THEN idx
  ELSE IF idx.val < Len(s.stack)
  THEN Ok(s, s.stack[idx.val + 1])
  ELSE Err(s, "StackOverflow")

\* Stack::push_val
push_val(s, val) ==
  IF Len(s.stack) >= s.limit THEN Err(s, "StackOverflow")
  ELSE Ok([s EXCEPT !.stack = Append(s.stack, val)], 0)

\* Stack::pop_val: Vec::pop()
pop_val(s) ==
  IF Len(s.stack) = 0 THEN Err(s, "StackOverflow")
  ELSE Ok([s EXCEPT !.stack = SubSeq(s.stack, 1, Len(s.stack) - 1)],
          s.stack[Len(s.stack)])

\* Stack::top_val: Vec::last()
top_val(s) ==
  IF Len(s.stack) = 0 THEN Err(s, "StackOverflow")
  ELSE Ok(s, s.stack[Len(s.stack)])

-----------------------------------------------------------------------------
(* SpecStack: the Stack API under any sequence of calls.  saved holds the  *)
(* StackPtr each push_frame returned, as Function::call keeps it until its *)
(* pop_frame; nloc counts the params and locals of the current frame.      *)

\* The operand-stack base of the current frame: bp + params + locals.
sbp == st.bp + nloc

\* params: the values a push_params was given; frame: what the push_frame
\* that opened the frame a pop_frame closes found (the bp, and the cells below
\* its params).
Last(op, arg, r) ==
  [op |-> op, arg |-> arg, ok |-> r.ok, trap |-> r.trap, val |-> r.val,
   pre |-> st, preN |-> nloc, params |-> <<>>, frame |-> <<>>]

StackInit ==
  /\ st = new_with_limit(StackLimit)
  /\ saved = <<>>
  /\ nloc = 0
  /\ last = [op |-> "new", arg |-> 0, ok |-> TRUE, trap |-> "none", val |-> 0,
             pre |-> new_with_limit(StackLimit), preN |-> 0, params |-> <<>>,
             frame |-> <<>>]

PushVal ==
  /\ UNCHANGED notStack
  /\ \E v \in Vals :
       LET r == push_val(st, v) IN
       /\ st' = r.s
       /\ last' = Last("push_val", v, r)
       /\ UNCHANGED <<saved, nloc>>

PopVal ==
  /\ UNCHANGED notStack
  /\ LET r == pop_val(st) IN
     /\ st' = r.s
     /\ last' = Last("pop_val", 0, r)
     /\ UNCHANGED <<saved, nloc>>

PushParams ==
  /\ UNCHANGED notStack
  /\ \E n \in 1..StackLimit : \E vs \in [1..n -> Vals] :
       LET params == [i \in 1..n |-> [type |-> "I64", v |-> vs[i]]]
           r == push_params(st, params) IN
       /\ st' = r.s
       /\ last' = [Last("push_params", n, r) EXCEPT !.params = vs]
       /\ UNCHANGED <<saved, nloc>>

\* Function::call opens a frame and keeps the StackPtr.
PushFrame ==
  /\ UNCHANGED notStack
  /\ \E n \in 0..MaxArg :
       LET r == push_frame(st, n) IN
       /\ Len(saved) < MaxFrames
       /\ st' = r.s
       /\ last' = Last("push_frame", n, r)
       /\ IF r.ok
          THEN /\ saved' = Append(saved, [old_bp |-> r.val, nloc |-> nloc, bp |-> st.bp,
                                          below |-> SubSeq(st.stack, 1, Len(st.stack) - n)])
               /\ nloc' = n
          ELSE UNCHANGED <<saved, nloc>>

\* run_function reserves the callee's locals on entry, right after push_frame.
ReserveLocals ==
  /\ UNCHANGED notStack
  /\ \E n \in 1..MaxArg :
       LET r == reserve_locals(st, n) IN
       /\ last.op = "push_frame" /\ last.ok
       /\ Len(st.stack) + n <= StackLimit + 1
       /\ st' = r.s
       /\ last' = Last("reserve_locals", n, r)
       /\ nloc' = nloc + n
       /\ UNCHANGED saved

\* Function::call closes its frame with the StackPtr it kept.
PopFrame ==
  /\ UNCHANGED notStack
  /\ /\ Len(saved) > 0
     /\ LET top == saved[Len(saved)] IN
        /\ st' = pop_frame(st, top.old_bp)
        /\ last' = [Last("pop_frame", top.old_bp, Ok(st, 0)) EXCEPT !.frame = <<top>>]
        /\ nloc' = top.nloc
        /\ saved' = SubSeq(saved, 1, Len(saved) - 1)

DropValues ==
  /\ UNCHANGED notStack
  /\ \E n \in 1..MaxArg :
       LET r == drop_values(st, n) IN
       /\ st' = r.s
       /\ last' = Last("drop_values", n, r)
       /\ UNCHANGED <<saved, nloc>>

GetLocal ==
  /\ UNCHANGED notStack
  /\ \E i \in 0..MaxArg + 1 :
       LET r == get_local_val(st, i) IN
       /\ st' = r.s
       /\ last' = Last("get_local", i, r)
       /\ UNCHANGED <<saved, nloc>>

SetLocal ==
  /\ UNCHANGED notStack
  /\ \E i \in 0..MaxArg + 1 : \E v \in Vals :
       LET r == set_local_val(st, i, v) IN
       /\ st' = r.s
       /\ last' = Last("set_local", i, r)
       /\ UNCHANGED <<saved, nloc>>

\* run_function, TeeLocal: top_val()? then set_local_val()?
TeeLocal ==
  /\ UNCHANGED notStack
  /\ \E i \in 0..MaxArg + 1 :
       LET t == top_val(st)
           r == IF t.ok THEN set_local_val(st, i, t.val) ELSE t IN
       /\ st' = r.s
       /\ last' = Last("tee_local", i, r)
       /\ UNCHANGED <<saved, nloc>>

StackNext ==
  \/ PushVal \/ PopVal \/ PushParams \/ PushFrame \/ ReserveLocals
  \/ PopFrame \/ DropValues \/ GetLocal \/ SetLocal \/ TeeLocal

-----------------------------------------------------------------------------
(* The registry (State) and the VM facade, src/src/vm.rs.                  *)

\* The most VMInstances alive at once.
MaxInstances == 2

\* Names a module is registered under, and the files load_file is given.
ModuleNames == {"a", "b"}
\* The module and export names looked up: those loaded, and one of each that
\* no load ever registers.
LookupModules == ModuleNames \cup {"c"}
LookupNames == {"f", "g", "h"}
Files == {"A", "B", "P", "D"}

\* isa::Instruction
Ins(op, arg) == [op |-> op, arg |-> arg]

\* parity_wasm::elements::Instruction
Op(op, arg) == [op |-> op, arg |-> arg]

\* Function { func_type, body: Internal { local_types, code } }
Fn(params, ret, locals, code) ==
  [param_count |-> params, ret_type |-> ret, local_count |-> locals, code |-> code]

\* The functions of file "T", as Function::new leaves them, by function index.
\*   0 one()        -> i64   1
\*   1 id(a)        -> i64   a
\*   2 first(a, b)  -> i64   a
\*   3 junk(a)               leaves two operands behind, writes its local
\*   4 twice(a)     -> i64   id(a) + id(a)
\*   5 trap(a)      -> i64   unreachable, with an operand pending
\*   6 pick(a, b)   -> i64   first(a, b) if a # 0, else id(b)
ThreadedFuncs ==
  << Fn(0, "I64", 0, << Ins("I64Const", 1), Ins("Return", 0) >>),
     Fn(1, "I64", 0, << Ins("GetLocal", 0), Ins("Return", 0) >>),
     Fn(2, "I64", 0, << Ins("GetLocal", 0), Ins("Return", 0) >>),
     Fn(1, "none", 1, << Ins("GetLocal", 0), Ins("GetLocal", 0),
                         Ins("TeeLocal", 1), Ins("Return", 0) >>),
     Fn(1, "I64", 0, << Ins("GetLocal", 0), Ins("Call", 1),
                        Ins("GetLocal", 0), Ins("Call", 1),
                        Ins("I64Add", 0), Ins("Return", 0) >>),
     Fn(1, "I64", 0, << Ins("GetLocal", 0), Ins("Unreachable", 0) >>),
     Fn(2, "I64", 0, << Ins("GetLocal", 0), Ins("BrIfEqz", 6),
                        Ins("GetLocal", 0), Ins("GetLocal", 1),
                        Ins("Call", 2), Ins("Return", 0),
                        Ins("GetLocal", 1), Ins("Call", 1),
                        Ins("Return", 0) >>) >>

ThreadedExports ==
  << <<"one", 0>>, <<"id", 1>>, <<"first", 2>>, <<"junk", 3>>, <<"twice", 4>>,
     <<"trap", 5>>, <<"pick", 6>> >>

\* The functions of file "C", as bwasm decodes them, by function index.
\*   0 id(a)          -> i64   a
\*   1 first(a, b)    -> i64   a + 0
\*   2 second(a, b)   -> i64   b
\*   3 callFirst(a, b)-> i64   first(a, b)
\*   4 incr(a)        -> i64   a := 1 + a; a
\*   5 callId(a, b)   -> i64   id(b)
\*   6 s5(a)          -> i64   block { block { br 1; a := 7 } a := 8 } a
\*   7 nest(a, b)     -> i64   block { block { br_if 1 (a); br_if 0 (b); a := 7 }
\*                                     b := 8 } a + b
\*   8 count(a)       -> i64   block { loop { br_if 1 (a = 0); a := a - 1; br 0 } } a
\*   9 sel(a, b)      -> i64   if (a) { br_if 0 (b); a := 7 } a + b
\*  10 trapIn(a)      -> i64   block { loop { a := first(a, a); br 0 } a := 7 } a
\*  11 outer(a)       -> i64   a := trapIn(a); a := 8; a
\*  12 stale(a)       -> i64   push a; a := 7; return the pushed value
\*  13 mark(a)                 (nothing)
\*  14 callMark(a)    -> i64   mark(a); a
\*  15 retIn(a)       -> i64   block { loop { return a; a := 7; br 0 } a := 8 } 9
\*  16 again(a)       -> i64   loop { a := (a = 0); br_if 0 (a) } a
\*  17 keepL0(a)      -> i64   incr(a) - a
\*  18 keepL1(a, b)   -> i64   incr(b) - a
\*  19 keepC(a)       -> i64   incr(1) - a
\*  20 keepOp(a)      -> i64   incr(a + 1) - a
\*  21 noRet(a)       -> i64   a, the body ending without `return`
\*  22 brOut(a)       -> i64   a, by a `br 0` out of the function's own block
\*  23 incrTrap(a)    -> i64   a := 1 + a; first(a, a), which traps
\*  24 keepT(a)       -> i64   incrTrap(a) - a
ClosureFuncs ==
  << Fn(1, "I64", 0, << Op("GetLocal", 0), Op("Return", 0), Op("End", 0) >>),
     Fn(2, "I64", 0, << Op("GetLocal", 0), Op("I64Const", 0), Op("I64Add", 0),
                        Op("Return", 0), Op("End", 0) >>),
     Fn(2, "I64", 0, << Op("GetLocal", 1), Op("Return", 0), Op("End", 0) >>),
     Fn(2, "I64", 0, << Op("GetLocal", 0), Op("GetLocal", 1), Op("Call", 1),
                        Op("Return", 0), Op("End", 0) >>),
     Fn(1, "I64", 0, << Op("I64Const", 1), Op("GetLocal", 0), Op("I64Add", 0),
                        Op("SetLocal", 0), Op("GetLocal", 0), Op("Return", 0),
                        Op("End", 0) >>),
     Fn(2, "I64", 0, << Op("GetLocal", 1), Op("Call", 0), Op("Return", 0),
                        Op("End", 0) >>),
     Fn(1, "I64", 0, << Op("Block", 0), Op("Block", 0), Op("Br", 1),
                        Op("I64Const", 7), Op("SetLocal", 0), Op("End", 0),
                        Op("I64Const", 8), Op("SetLocal", 0), Op("End", 0),
                        Op("GetLocal", 0), Op("Return", 0), Op("End", 0) >>),
     Fn(2, "I64", 0, << Op("Block", 0), Op("Block", 0),
                        Op("GetLocal", 0), Op("BrIf", 1),
                        Op("GetLocal", 1), Op("BrIf", 0),
                        Op("I64Const", 7), Op("SetLocal", 0), Op("End", 0),
                        Op("I64Const", 8), Op("SetLocal", 1), Op("End", 0),
                        Op("GetLocal", 0), Op("GetLocal", 1), Op("I64Add", 0),
                        Op("Return", 0), Op("End", 0) >>),
     Fn(1, "I64", 0, << Op("Block", 0), Op("Loop", 0),
                        Op("GetLocal", 0), Op("I64Eqz", 0), Op("BrIf", 1),
                        Op("GetLocal", 0), Op("I64Const", 1), Op("I64Sub", 0),
                        Op("SetLocal", 0), Op("Br", 0), Op("End", 0), Op("End", 0),
                        Op("GetLocal", 0), Op("Return", 0), Op("End", 0) >>),
     Fn(2, "I64", 0, << Op("GetLocal", 0), Op("If", 0),
                        Op("GetLocal", 1), Op("BrIf", 0),
                        Op("I64Const", 7), Op("SetLocal", 0), Op("End", 0),
                        Op("GetLocal", 0), Op("GetLocal", 1), Op("I64Add", 0),
                        Op("Return", 0), Op("End", 0) >>),
     Fn(1, "I64", 0, << Op("Block", 0), Op("Loop", 0),
                        Op("GetLocal", 0), Op("GetLocal", 0), Op("Call", 1),
                        Op("SetLocal", 0), Op("Br", 0), Op("End", 0),
                        Op("I64Const", 7), Op("SetLocal", 0), Op("End", 0),
                        Op("GetLocal", 0), Op("Return", 0), Op("End", 0) >>),
     Fn(1, "I64", 0, << Op("GetLocal", 0), Op("Call", 10), Op("SetLocal", 0),
                        Op("I64Const", 8), Op("SetLocal", 0),
                        Op("GetLocal", 0), Op("Return", 0), Op("End", 0) >>),
     Fn(1, "I64", 0, << Op("GetLocal", 0), Op("I64Const", 7), Op("SetLocal", 0),
                        Op("Return", 0), Op("End", 0) >>),
     Fn(1, "none", 0, << Op("Return", 0), Op("End", 0) >>),
     Fn(1, "I64", 0, << Op("GetLocal", 0), Op("Call", 13), Op("GetLocal", 0),
                        Op("Return", 0), Op("End", 0) >>),
     Fn(1, "I64", 0, << Op("Block", 0), Op("Loop", 0),
                        Op("GetLocal", 0), Op("Return", 0),
                        Op("I64Const", 7), Op("SetLocal", 0), Op("Br", 0), Op("End", 0),
                        Op("I64Const", 8), Op("SetLocal", 0), Op("End", 0),
                        Op("I64Const", 9), Op("Return", 0), Op("End", 0) >>),
     Fn(1, "I64", 0, << Op("Loop", 0), Op("GetLocal", 0), Op("I64Eqz", 0),
                        Op("SetLocal", 0), Op("GetLocal", 0), Op("BrIf", 0), Op("End", 0),
                        Op("GetLocal", 0), Op("Return", 0), Op("End", 0) >>),
     Fn(1, "I64", 0, << Op("GetLocal", 0), Op("Call", 4), Op("GetLocal", 0),
                        Op("I64Sub", 0), Op("Return", 0), Op("End", 0) >>),
     Fn(2, "I64", 0, << Op("GetLocal", 1), Op("Call", 4), Op("GetLocal", 0),
                        Op("I64Sub", 0), Op("Return", 0), Op("End", 0) >>),
     Fn(1, "I64", 0, << Op("I64Const", 1), Op("Call", 4), Op("GetLocal", 0),
                        Op("I64Sub", 0), Op("Return", 0), Op("End", 0) >>),
     Fn(1, "I64", 0, << Op("GetLocal", 0), Op("I64Const", 1), Op("I64Add", 0),
                        Op("Call", 4), Op("GetLocal", 0),
                        Op("I64Sub", 0), Op("Return", 0), Op("End", 0) >>),
     Fn(1, "I64", 0, << Op("GetLocal", 0), Op("End", 0) >>),
     Fn(1, "I64", 0, << Op("GetLocal", 0), Op("Br", 0), Op("End", 0) >>),
     Fn(1, "I64", 0, << Op("I64Const", 1), Op("GetLocal", 0), Op("I64Add", 0),
                        Op("SetLocal", 0), Op("GetLocal", 0), Op("GetLocal", 0),
                        Op("Call", 1), Op("Return", 0), Op("End", 0) >>),
     Fn(1, "I64", 0, << Op("GetLocal", 0), Op("Call", 23), Op("GetLocal", 0),
                        Op("I64Sub", 0), Op("Return", 0), Op("End", 0) >>) >>

\* The functions of file "R", as Function::new leaves them: each rec calls
\* itself with its own params and has no other path; enter calls a rec
\* that takes no params.
\*   0 rec0()             call rec0
\*   1 rec0L()   1 local  call rec0L
\*   2 rec1(a)            call rec1(a)
\*   3 rec1L(a)  1 local  call rec1L(a)
\*   4 rec2(a, b)         call rec2(a, b)
\*   5 enter0(a)          call rec0
\*   6 enter0L(a)         call rec0L
RecursiveFuncs ==
  << Fn(0, "none", 0, << Ins("Call", 0), Ins("Return", 0) >>),
     Fn(0, "none", 1, << Ins("Call", 1), Ins("Return", 0) >>),
     Fn(1, "none", 0, << Ins("GetLocal", 0), Ins("Call", 2), Ins("Return", 0) >>),
     Fn(1, "none", 1, << Ins("GetLocal", 0), Ins("Call", 3), Ins("Return", 0) >>),
     Fn(2, "none", 0, << Ins("GetLocal", 0), Ins("GetLocal", 1), Ins("Call", 4),
                         Ins("Return", 0) >>),
     Fn(1, "none", 0, << Ins("Call", 0), Ins("Return", 0) >>),
     Fn(1, "none", 0, << Ins("Call", 1), Ins("Return", 0) >>) >>

RecursiveExports ==
  << <<"rec1", 2>>, <<"rec1L", 3>>, <<"rec2", 4>>, <<"enter0", 5>>, <<"enter0L", 6>> >>

\* The functions of file "K", as Function::new leaves them, by function index.
\*   0 id(a)          -> i64   a
\*   1 first(a, b)    -> i64   a
\*   2 mark(a)                 leaves a on its operand stack
\*   3 one()          -> i64   1
\*   4 set(a)  1 local         local 1 := 1; a := 1
\*   5 c1(a)   1 local -> i64  local 1 := 1; a + id(a)
\*   6 c2(a)          -> i64   1 + first(a, a)
\*   7 c3(a)          -> i64   push a; set(a); mark(a); add one()
\*   8 c4(a)          -> i64   a + wrap(a)
\*   9 wrap(a)        -> i64   id(a)
CallFuncs ==
  << Fn(1, "I64", 0, << Ins("GetLocal", 0), Ins("Return", 0) >>),
     Fn(2, "I64", 0, << Ins("GetLocal", 0), Ins("Return", 0) >>),
     Fn(1, "none", 0, << Ins("GetLocal", 0), Ins("Return", 0) >>),
     Fn(0, "I64", 0, << Ins("I64Const", 1), Ins("Return", 0) >>),
     Fn(1, "none", 1, << Ins("I64Const", 1), Ins("SetLocal", 1),
                         Ins("I64Const", 1), Ins("SetLocal", 0), Ins("Return", 0) >>),
     Fn(1, "I64", 1, << Ins("I64Const", 1), Ins("SetLocal", 1),
                        Ins("GetLocal", 0), Ins("GetLocal", 0), Ins("Call", 0),
                        Ins("I64Add", 0), Ins("Return", 0) >>),
     Fn(1, "I64", 0, << Ins("I64Const", 1), Ins("GetLocal", 0), Ins("GetLocal", 0),
                        Ins("Call", 1), Ins("I64Add", 0), Ins("Return", 0) >>),
     Fn(1, "I64", 0, << Ins("GetLocal", 0), Ins("GetLocal", 0), Ins("Call", 4),
                        Ins("GetLocal", 0), Ins("Call", 2), Ins("Call", 3),
                        Ins("I64Add", 0), Ins("Return", 0) >>),
     Fn(1, "I64", 0, << Ins("GetLocal", 0), Ins("GetLocal", 0), Ins("Call", 9),
                        Ins("I64Add", 0), Ins("Return", 0) >>),
     Fn(1, "I64", 0, << Ins("GetLocal", 0), Ins("Call", 0), Ins("Return", 0) >>) >>

CallExports == << <<"c1", 5>>, <<"c2", 6>>, <<"c3", 7>>, <<"c4", 8>> >>

\* The function of file "P", as bwasm decodes it.
\*   0 isnz(a)        -> i64   if (a) { a := 1 } else { a := 0 } a
ParityFuncs ==
  << Fn(1, "I64", 0, << Op("GetLocal", 0), Op("If", 0),
                        Op("I64Const", 1), Op("SetLocal", 0), Op("Else", 0),
                        Op("I64Const", 0), Op("SetLocal", 0), Op("End", 0),
                        Op("GetLocal", 0), Op("Return", 0), Op("End", 0) >>) >>

ParityExports == << <<"isnz", 0>> >>

ClosureExports ==
  << <<"id", 0>>, <<"first", 1>>, <<"second", 2>>, <<"callFirst", 3>>,
     <<"incr", 4>>, <<"callId", 5>>, <<"s5", 6>>, <<"nest", 7>>, <<"count", 8>>,
     <<"sel", 9>>, <<"trapIn", 10>>, <<"outer", 11>>, <<"stale", 12>>,
     <<"callMark", 14>>, <<"retIn", 15>>, <<"again", 16>>, <<"keepL0", 17>>,
     <<"keepL1", 18>>, <<"keepC", 19>>, <<"keepOp", 20>>, <<"noRet", 21>>,
     <<"brOut", 22>>, <<"keepT", 24>> >>

-----------------------------------------------------------------------------
(* The closure back-end, src/src/compiler.rs: translation of a function    *)
(* body into a tree of Blocks of eval thunks.                              *)

\* The deepest nesting compile_block accepts (`if state.depth > 4`).
MaxDepth == 4

\* enum Input: Local(idx), Const(val), Op(closure).  A closure is what it
\* captured: the operator, its immediate n and the Inputs it consumed.
Input_Local(idx) == [k |-> "Local", n |-> idx, op |-> "", args |-> <<>>]
Input_Const(val) == [k |-> "Const", n |-> val, op |-> "", args |-> <<>>]
Input_Op(op, n, args) == [k |-> "Op", n |-> n, op |-> op, args |-> args]

\* EvalFunc: the thunks compile_block pushes on a Block.
Thunk(t, n, input, block) == [t |-> t, n |-> n, input |-> input, block |-> block]

\* Block::new
Block_new(kind, depth) == [kind |-> kind, depth |-> depth, eval |-> <<>>]

\* Block::push
Block_push(b, f) == [b EXCEPT !.eval = Append(@, f)]

\* compiler::State::new, with the calls of compile_block in progress
\* (innermost last): the Block each is filling and, for an If or Else block,
\* the condition and the If block compile_if holds meanwhile.
CState_new ==
  [values |-> <<>>, depth |-> 0, pc |-> 0, open |-> <<>>, status |-> "go",
   block |-> Block_new("Block", 0)]

CFail(cs, status) == [cs EXCEPT !.status = status]

\* A compile_block that gives up one block earlier.
compile_block_enter_early(cs, kind, cond, then) ==
  IF cs.depth + 1 >= MaxDepth THEN CFail(cs, "panic")
  ELSE [cs EXCEPT !.depth = @ + 1,
          !.open = Append(@, [block |-> Block_new(kind, cs.depth),
                              cond |-> cond, then |-> then])]

\* The entry of compile_block: Block::new(kind, state.depth), depth += 1.
compile_block_enter(cs, kind, cond, then) ==
  IF cs.depth + 1 > MaxDepth THEN CFail(cs, "panic")
  ELSE [cs EXCEPT !.depth = @ + 1,
          !.open = Append(@, [block |-> Block_new(kind, cs.depth),
                              cond |-> cond, then |-> then])]

\* The arm that called compile_block pushes its thunk on the parent Block
\* and the loop steps over the End: `state.pc += 1`.
CParentPush(cs, rest, f) ==
  [cs EXCEPT !.depth = @ - 1, !.pc = @ + 1,
     !.open = [rest EXCEPT ![Len(rest)].block = Block_push(@, f)]]

\* The exit of compile_block (`break`): depth -= 1 and Ok(block), back in
\* compile_function, in the Block or Loop arm, or in compile_if.
compile_block_exit(code, cs) ==
  LET top == cs.open[Len(cs.open)]
      rest == SubSeq(cs.open, 1, Len(cs.open) - 1)
      closed == [cs EXCEPT !.depth = @ - 1, !.open = rest]
  IN IF rest = <<>> THEN [closed EXCEPT !.status = "done", !.block = top.block]
     ELSE IF top.block.kind \in {"Block", "Loop"}
     THEN CParentPush(cs, rest, Thunk("block", 0, <<>>, <<top.block>>))
     ELSE IF top.block.kind = "Else"
     THEN CParentPush(cs, rest, Thunk("if", 0, top.cond, top.then \o <<top.block>>))
     ELSE IF cs.pc >= Len(code) THEN CFail(cs, "panic")
     ELSE IF code[cs.pc + 1].op = "Else"
     THEN compile_block_enter(closed, "Else", top.cond, <<top.block>>)
     ELSE IF code[cs.pc + 1].op = "End"
     THEN CParentPush(cs, rest, Thunk("if", 0, top.cond, <<top.block>>))
     ELSE CFail(cs, "panic")

\* State::pop and State::push on the Input stack.
CTop(cs) == cs.values[Len(cs.values)]
CPop(cs) == [cs EXCEPT !.values = SubSeq(@, 1, Len(@) - 1)]
CPush(cs, input) == [cs EXCEPT !.values = Append(@, input)]

\* block.push(thunk) on the Block being compiled, then `state.pc += 1`.
CEmit(cs, f) == [cs EXCEPT !.open[Len(cs.open)].block = Block_push(@, f), !.pc = @ + 1]
CNext(cs) == [cs EXCEPT !.pc = @ + 1]

\* One round of the loop of compile_block.
compile_block(code, ret_type, cs) ==
  LET op == code[cs.pc + 1]
      kind == cs.open[Len(cs.open)].block.kind
      empty == cs.values = <<>>
      pop2 == CPop(CPop(cs))
      left == cs.values[Len(cs.values) - 1]
  IN
  IF cs.pc > Len(code) THEN compile_block_exit(code, cs)
  ELSE IF cs.pc = Len(code) THEN CFail(cs, "panic")
  ELSE CASE op.op = "Block" -> compile_block_enter(CNext(cs), "Block", <<>>, <<>>)
    [] op.op = "Loop" -> compile_block_enter(CNext(cs), "Loop", <<>>, <<>>)
    [] op.op = "If" ->
         IF empty THEN CFail(cs, "ValidationError")
         ELSE compile_block_enter(CNext(CPop(cs)), "If", <<CTop(cs)>>, <<>>)
    [] op.op = "Else" ->
         IF kind = "If" THEN compile_block_exit(code, cs)
         ELSE CFail(cs, "ValidationError")
    [] op.op = "End" -> compile_block_exit(code, cs)
    [] op.op = "Return" ->
         IF ret_type # "none"
         THEN IF empty THEN CFail(cs, "ValidationError")
              ELSE CEmit(CPop(cs), Thunk("return", 0, <<CTop(cs)>>, <<>>))
         ELSE CEmit(cs, Thunk("return_none", 0, <<>>, <<>>))
    [] op.op = "Br" -> CEmit(cs, Thunk("br", op.arg, <<>>, <<>>))
    [] op.op = "BrIf" ->
         IF empty THEN CFail(cs, "ValidationError")
         ELSE CEmit(CPop(cs), Thunk("br_if", op.arg, <<CTop(cs)>>, <<>>))
    [] op.op = "Call" ->
         IF empty THEN CFail(cs, "ValidationError")
         ELSE CNext(CPush(CPop(cs), Input_Op("call", op.arg, <<CTop(cs)>>)))
    [] op.op = "GetLocal" -> CNext(CPush(cs, Input_Local(op.arg)))
    [] op.op = "SetLocal" ->
         IF empty THEN CFail(cs, "ValidationError")
         ELSE IF op.arg = 0 /\ CTop(cs) = Input_Local(0) THEN CNext(CPop(cs))
         ELSE CEmit(CPop(cs), Thunk("set_local", op.arg, <<CTop(cs)>>, <<>>))
    [] op.op = "TeeLocal" ->
         IF empty THEN CFail(cs, "ValidationError")
         ELSE CNext(CPush(CPop(cs), Input_Op("tee", op.arg, <<CTop(cs)>>)))
    [] op.op = "I64Const" -> CNext(CPush(cs, Input_Const(op.arg)))
    [] op.op \in {"I64Add", "I64Sub"} ->
         IF Len(cs.values) < 2 THEN CFail(cs, "ValidationError")
         ELSE CNext(CPush(pop2, Input_Op(op.op, 0, <<left, CTop(cs)>>)))
    [] op.op = "I64Eqz" ->
         IF empty THEN CFail(cs, "ValidationError")
         ELSE CNext(CPush(CPop(cs), Input_Op(op.op, 0, <<CTop(cs)>>)))
    [] OTHER -> CFail(cs, "panic")

\* compile_block runs until the function's own block is closed or
\* translation fails.
RECURSIVE compile_blocks(_, _, _)
compile_blocks(code, ret_type, cs) ==
  IF cs.status # "go" THEN cs
  ELSE compile_blocks(code, ret_type, compile_block(code, ret_type, cs))

\* Compiler::compile_function: the compiled Function, or how translation
\* failed.
compile_function(func) ==
  LET cs == compile_blocks(func.code, func.ret_type,
                           compile_block_enter(CState_new, "Block", <<>>, <<>>))
  IN [status |-> cs.status, param_count |-> func.param_count,
      ret_type |-> func.ret_type, local_count |-> func.local_count,
      block |-> cs.block]

\* Compiler::compile on file "C".
ClosureCompiled == [i \in 1..Len(ClosureFuncs) |-> compile_function(ClosureFuncs[i])]

-----------------------------------------------------------------------------
(* Loading a module: bwasm, Compiler::compile and State::compile_module.   *)

\* bwasm::Module::from_file(file): the decoded module, its functions and its
\* exports (field, function index) in declaration order.
from_file(file) ==
  CASE file = "A" -> [nfuncs |-> 2, exports |-> << <<"f", 0>>, <<"g", 1>> >>]
    [] file = "B" -> [nfuncs |-> 1, exports |-> << <<"f", 0>> >>]
    [] file = "T" -> [nfuncs |-> Len(ThreadedFuncs), exports |-> ThreadedExports]
    [] file = "C" -> [nfuncs |-> Len(ClosureFuncs), exports |-> ClosureExports]
    [] file = "R" -> [nfuncs |-> Len(RecursiveFuncs), exports |-> RecursiveExports]
    [] file = "P" -> [nfuncs |-> Len(ParityFuncs), exports |-> ParityExports]
    [] file = "K" -> [nfuncs |-> Len(CallFuncs), exports |-> CallExports]
    [] file = "D" -> [nfuncs |-> 1, exports |-> << <<"f", 0>>, <<"f", 0>> >>]

\* Compiler::compile on file "P".
ParityCompiled == [i \in 1..Len(ParityFuncs) |-> compile_function(ParityFuncs[i])]

\* How compile_function ends on each function of a file whose bodies the
\* model holds as bwasm decodes them.
Compiler_status(file) ==
  IF file = "C" THEN [i \in 1..Len(ClosureFuncs) |-> ClosureCompiled[i].status]
  ELSE IF file = "P" THEN [i \in 1..Len(ParityFuncs) |-> ParityCompiled[i].status]
  ELSE <<>>

\* Compiler::compile: one compiled Function per function of the module, in
\* index order, or the Err of the first compile_function that fails (`?`).
\* A Function is identified by the file and index it came from.
Compiler_collect(file, module, status) ==
  LET bad == {i \in 1..Len(status) : status[i] # "done"}
      first == CHOOSE i \in bad : \A j \in bad : i <= j
  IN IF bad # {} THEN [ok |-> FALSE, err |-> status[first], funcs |-> <<>>]
     ELSE [ok |-> TRUE, err |-> "none",
           funcs |-> [i \in 1..module.nfuncs |-> [file |-> file, idx |-> i - 1]]]

\* Compiler::compile
Compiler_compile(file, module) == Compiler_collect(file, module, Compiler_status(file))

\* State::new
State_new == [funcs |-> <<>>, module_instances |-> <<>>, modules |-> <<>>]

\* ModuleInstance::new: no function addresses, no exports.
ModuleInstance_new == [funcs |-> <<>>, exports |-> <<>>]

\* ModuleInstance::add_function
add_function(inst, addr) == [inst EXCEPT !.funcs = Append(inst.funcs, addr)]

\* ModuleInstance::add_export: an export name is unique within its module.
add_export(inst, field, idx) ==
  IF field \in DOMAIN inst.exports
  THEN [ok |-> FALSE, err |-> "FuncExists", inst |-> inst]
  ELSE [ok |-> TRUE, err |-> "none",
        inst |-> [inst EXCEPT !.exports = inst.exports @@ (field :> idx)]]

\* ModuleInstance::find_function: the export table, then the module's
\* function addresses.
find_function(inst, name) ==
  IF name \in DOMAIN inst.exports /\ inst.exports[name] < Len(inst.funcs)
  THEN [ok |-> TRUE, err |-> "none", addr |-> inst.funcs[inst.exports[name] + 1]]
  ELSE [ok |-> FALSE, err |-> "FuncNotFound", addr |-> 0]

\* The loop over module.exports() in compile_module, from export k on.
RECURSIVE load_exports(_, _, _)
load_exports(inst, exports, k) ==
  IF k > Len(exports) THEN [ok |-> TRUE, err |-> "none", inst |-> inst]
  ELSE LET r == add_export(inst, exports[k][1], exports[k][2]) IN
       IF ~r.ok THEN r ELSE load_exports(r.inst, exports, k + 1)

\* The loop `for addr in 0..self.funcs.len()` in compile_module.
RECURSIVE add_functions(_, _, _)
add_functions(inst, n, addr) ==
  IF addr >= n THEN inst ELSE add_functions(add_function(inst, addr), n, addr + 1)

\* State::compile_module after `compiler.compile()` has returned `compiled`:
\* `?` returns its Err before self.funcs is assigned.
compile_module_funcs(s, name, module, compiled) ==
  LET mod_addr == Len(s.module_instances)
      s1 == [s EXCEPT !.funcs = compiled.funcs]
      inst1 == add_functions(ModuleInstance_new, Len(s1.funcs), 0)
      ex == load_exports(inst1, module.exports, 1)
  IN IF ~compiled.ok THEN [ok |-> FALSE, err |-> compiled.err, s |-> s]
     ELSE IF ~ex.ok THEN [ok |-> FALSE, err |-> ex.err, s |-> s1]
     ELSE [ok |-> TRUE, err |-> "none",
           s |-> [s1 EXCEPT !.module_instances = Append(@, ex.inst),
                            !.modules = (name :> mod_addr) @@ @]]

\* State::compile_module: the registry after the call and its result.
compile_module(s, name, file, module) ==
  compile_module_funcs(s, name, module, Compiler_compile(file, module))

\* A load_file that does not look for the name in self.modules.
State_load_file_overwrite(s, name, file) == compile_module(s, name, file, from_file(file))

\* State::load_file
State_load_file(s, name, file) ==
  IF name \in DOMAIN s.modules THEN [ok |-> FALSE, err |-> "ModuleExists", s |-> s]
  ELSE compile_module(s, name, file, from_file(file))

\* A load_file that goes to the State without asking Arc::get_mut.
VM_load_file_unchecked(s, alive, name, file) == State_load_file(s, name, file)

\* VM::load_file: Arc::get_mut gives the State only while no other Arc to it
\* exists, that is while no VMInstance is alive.
VM_load_file(s, alive, name, file) ==
  IF alive = {} THEN State_load_file(s, name, file)
  ELSE [ok |-> FALSE, err |-> "CannotModifySharedVM", s |-> s]

\* State::get_function
get_function(s, addr) ==
  IF addr < Len(s.funcs) THEN [ok |-> TRUE, err |-> "none", func |-> s.funcs[addr + 1]]
  ELSE [ok |-> FALSE, err |-> "InvalidFunctionAddr", func |-> [file |-> "", idx |-> 0]]

\* A get_exported that asks the first module instance, whatever the module name.
get_exported_first(s, module, name) ==
  IF Len(s.module_instances) > 0 THEN find_function(s.module_instances[1], name)
  ELSE [ok |-> FALSE, err |-> "ModuleNotFound", addr |-> 0]

\* State::get_module_instance and State::get_exported
get_exported(s, module, name) ==
  IF module \in DOMAIN s.modules /\ s.modules[module] < Len(s.module_instances)
  THEN find_function(s.module_instances[s.modules[module] + 1], name)
  ELSE [ok |-> FALSE, err |-> "ModuleNotFound", addr |-> 0]

VMLast(op, name, file, res) ==
  [op |-> op, name |-> name, file |-> file, res |-> res, addr |-> 0, preState |-> state,
   preLive |-> live, preSpawned |-> spawned]

\* VM::new
VMInit ==
  /\ state = State_new
  /\ live = {}
  /\ spawned = FALSE
  /\ loadedFrom = <<>>
  /\ vmLast = [op |-> "new", name |-> "", file |-> "", res |-> "none", addr |-> 0,
               preState |-> State_new, preLive |-> {}, preSpawned |-> FALSE]

LoadFile ==
  /\ UNCHANGED notVM
  /\ \E name \in ModuleNames : \E file \in Files :
       LET r == VM_load_file(state, live, name, file) IN
       /\ state' = r.s
       /\ vmLast' = VMLast("load_file", name, file, r.err)
       /\ loadedFrom' = IF r.ok THEN (name :> file) @@ loadedFrom ELSE loadedFrom
       /\ UNCHANGED <<live, spawned>>

\* VM::spawn: VMInstance::new(self.state.clone())
Spawn ==
  /\ UNCHANGED notVM
  /\ \E i \in (1..MaxInstances) \ live :
       /\ live' = live \cup {i}
       /\ spawned' = TRUE
       /\ vmLast' = VMLast("spawn", "", "", "none")
       /\ UNCHANGED <<state, loadedFrom>>

\* A VMInstance goes out of scope: its Store and its Arc are dropped.
DropInstance ==
  /\ UNCHANGED notVM
  /\ \E i \in live :
       /\ live' = live \ {i}
       /\ vmLast' = VMLast("drop", "", "", "none")
       /\ UNCHANGED <<state, spawned, loadedFrom>>

\* State::get_exported, as VMInstance::call looks a function up by module and
\* export name; vmLast.file holds the export name asked for.
GetExported ==
  /\ UNCHANGED notVM
  /\ \E module \in LookupModules : \E name \in LookupNames :
       LET r == get_exported(state, module, name) IN
       /\ vmLast' = [VMLast("get_exported", module, name, r.err) EXCEPT !.addr = r.addr]
       /\ UNCHANGED <<state, live, spawned, loadedFrom>>

VMNext == LoadFile \/ Spawn \/ DropInstance \/ GetExported


-----------------------------------------------------------------------------
(* The threaded interpreter, src/src/function.rs, under Store::call and    *)
(* VMInstance::call of src/src/vm.rs.                                      *)

\* The stack limit of the instance's Store (DEFAULT_STACK_LIMIT, scaled).
StoreLimit == 5

\* The most instructions one call may execute in the model.
Fuel == 24

\* i64::wrapping_add; the operands of this model stay far below 2^63.
wrapping_add(left, right) == left + right

\* Stack::pop_pair: right is popped first.
pop_pair(s) ==
  LET right == pop_val(s) IN
  IF ~right.ok THEN right
  ELSE LET left == pop_val(right.s) IN
       IF ~left.ok THEN left ELSE Ok(left.s, <<left.val, right.val>>)

\* The registry of the instance: file "T" loaded as module "m".
ThreadedState == State_load_file(State_new, "m", "T").s

\* The registry with file "R" loaded as module "m".
RecursiveState == State_load_file(State_new, "m", "R").s

\* The registry with file "K" loaded as module "m".
CallState == State_load_file(State_new, "m", "K").s

\* The registry with file "C" loaded as module "c".
ClosureState == State_load_file(State_new, "c", "C").s

\* isa::compile_function on a body without blocks: every opcode is emitted
\* as the instruction of the same name, and the End that closes the function
\* block emits Return.
isa_compile_function(func) ==
  [func EXCEPT !.code = [i \in 1..Len(func.code) |->
     IF func.code[i].op = "End" THEN Ins("Return", 0) ELSE func.code[i]]]

\* The Function of the threaded back-end a registry entry stands for.
FunctionOf(f) ==
  IF f.file = "T" THEN ThreadedFuncs[f.idx + 1]
  ELSE IF f.file = "R" THEN RecursiveFuncs[f.idx + 1]
  ELSE IF f.file = "K" THEN CallFuncs[f.idx + 1]
  ELSE isa_compile_function(ClosureFuncs[f.idx + 1])

\* The interpreter between two instructions: the stack, the activations of
\* Function::call (innermost last, each with the StackPtr its push_frame
\* returned), and where control is: "run" at the top activation's pc,
\* "return" when run_function has just returned ret (<<>> is None, <<v>> is
\* Some(v)), "done" when the outermost Function::call has returned Ok(ret),
\* "trap" when an Err(trap) has propagated out through every `?`.
Machine(registry, s) ==
  [state |-> registry, s |-> s, frames |-> <<>>, status |-> "run", ret |-> <<>>,
   trap |-> "none"]

Trapped(m, s, t) == [m EXCEPT !.s = s, !.status = "trap", !.trap = t]

Top(m) == m.frames[Len(m.frames)]

\* Function::call up to the loop of run_function: push_frame, reserve_locals,
\* and `return Ok(None)` for an empty body.
Function_call(m, func) ==
  LET old_bp == push_frame(m.s, func.param_count) IN
  IF ~old_bp.ok THEN Trapped(m, old_bp.s, old_bp.trap)
  ELSE LET l == reserve_locals(old_bp.s, func.local_count) IN
       IF ~l.ok THEN Trapped(m, l.s, l.trap)
       ELSE [m EXCEPT !.s = l.s,
                      !.frames = Append(@, [func |-> func, pc |-> 0, old_bp |-> old_bp.val]),
                      !.status = IF Len(func.code) = 0 THEN "return" ELSE "run",
                      !.ret = <<>>]

\* State::invoke_function
invoke_function(m, func_addr) ==
  LET g == get_function(m.state, func_addr) IN
  IF ~g.ok THEN Trapped(m, m.s, g.err) ELSE Function_call(m, FunctionOf(g.func))

\* The end of the loop body of run_function: `break` at pc_end (Ok(None)),
\* else pc + 1.  r is the Trap<()> of the instruction.
advance(m, r) ==
  IF ~r.ok THEN Trapped(m, r.s, r.trap)
  ELSE IF Top(m).pc = Len(Top(m).func.code) - 1
  THEN [m EXCEPT !.s = r.s, !.status = "return", !.ret = <<>>]
  ELSE [m EXCEPT !.s = r.s, !.frames[Len(m.frames)].pc = @ + 1, !.status = "run"]

\* A branch that goes on with the next instruction instead of jumping.
jump_falls_through(m, s, jump_pc) == advance(m, Ok(s, 0))

\* `pc = jump_pc; continue`
jump(m, s, jump_pc) ==
  [m EXCEPT !.s = s, !.frames[Len(m.frames)].pc = jump_pc]

\* One instruction of the loop of run_function.
run_function(m) ==
  LET func == Top(m).func
      op == func.code[Top(m).pc + 1]
      s == m.s
  IN CASE op.op = "Br" -> jump(m, s, op.arg)
    [] op.op = "BrIfEqz" ->
         LET val == pop_val(s) IN
         IF val.ok /\ val.val = 0 THEN jump(m, val.s, op.arg) ELSE advance(m, val)
    [] op.op = "BrIfNez" ->
         LET val == pop_val(s) IN
         IF val.ok /\ val.val # 0 THEN jump(m, val.s, op.arg) ELSE advance(m, val)
    [] op.op = "Unreachable" -> Trapped(m, s, "Unreachable")
    [] op.op = "Return" ->
         IF func.ret_type # "none"
         THEN LET val == pop_val(s) IN
              IF ~val.ok THEN Trapped(m, val.s, val.trap)
              ELSE [m EXCEPT !.s = val.s, !.status = "return", !.ret = <<val.val>>]
         ELSE [m EXCEPT !.status = "return", !.ret = <<>>]
    [] op.op = "Call" -> invoke_function(m, op.arg)
    [] op.op = "GetLocal" ->
         LET val == get_local_val(s, op.arg) IN
         IF ~val.ok THEN Trapped(m, val.s, val.trap)
         ELSE advance(m, push_val(val.s, val.val))
    [] op.op = "SetLocal" ->
         LET val == pop_val(s) IN
         IF ~val.ok THEN Trapped(m, val.s, val.trap)
         ELSE advance(m, set_local_val(val.s, op.arg, val.val))
    [] op.op = "TeeLocal" ->
         LET val == top_val(s) IN
         IF ~val.ok THEN Trapped(m, val.s, val.trap)
         ELSE advance(m, set_local_val(val.s, op.arg, val.val))
    [] op.op = "I64Const" -> advance(m, push_val(s, op.arg))
    [] op.op = "I64Add" ->
         LET pair == pop_pair(s) IN
         IF ~pair.ok THEN Trapped(m, pair.s, pair.trap)
         ELSE advance(m, push_val(pair.s, wrapping_add(pair.val[1], pair.val[2])))

\* A return after which the Call arm pushes nothing.
Function_return_dropped(m) ==
  LET s == pop_frame(m.s, Top(m).old_bp)
      caller == [m EXCEPT !.s = s, !.frames = SubSeq(@, 1, Len(@) - 1)]
  IN IF Len(m.frames) = 1 THEN [caller EXCEPT !.status = "done"]
     ELSE advance(caller, Ok(s, 0))

\* run_function has returned Ok(ret): Function::call pops the frame and
\* returns; the Call arm of the caller, if there is one, pushes Some(ret) and
\* goes on.
Function_return(m) ==
  LET s == pop_frame(m.s, Top(m).old_bp)
      caller == [m EXCEPT !.s = s, !.frames = SubSeq(@, 1, Len(@) - 1)]
  IN IF Len(m.frames) = 1 THEN [caller EXCEPT !.status = "done"]
     ELSE IF m.ret # <<>> THEN advance(caller, push_val(s, m.ret[1]))
     ELSE advance(caller, Ok(s, 0))

\* The interpreter runs until the outermost call has returned or trapped.
RECURSIVE run(_, _)
run(m, fuel) ==
  IF m.status \in {"done", "trap"} THEN m
  ELSE IF fuel = 0 THEN [m EXCEPT !.status = "OutOfFuel"]
  ELSE run(IF m.status = "run" THEN run_function(m) ELSE Function_return(m), fuel - 1)

\* The result of a call: Ok(RetValue), Err(Error), or a panic of the thread.
CallOk(s, ret) == [res |-> "Ok", trap |-> "none", ret |-> ret, s |-> s]
CallErr(s, e) == [res |-> e, trap |-> "none", ret |-> <<>>, s |-> s]

\* impl From<TrapKind> for Error, where `?` turns a Trap into a Result.
Error_from(s, trap) == [res |-> "RuntimeError", trap |-> trap, ret |-> <<>>, s |-> s]

\* Store::call up to func.call: the call has failed already (done), or the
\* interpreter is at the first instruction of the function.
Store_call_begin(registry, s, func_addr, params) ==
  LET pushed == push_params(s, params)
      func == get_function(registry, func_addr)
      failed(r) == [done |-> TRUE, r |-> r, m |-> Machine(registry, r.s)]
  IN IF ~pushed.ok THEN failed(Error_from(pushed.s, pushed.trap))
     ELSE IF ~func.ok THEN failed(Error_from(pushed.s, func.err))
     ELSE IF Len(params) = 0 THEN failed(CallErr(pushed.s, "panic"))
     ELSE [done |-> FALSE, r |-> CallOk(pushed.s, <<>>),
           m |-> Function_call(Machine(registry, pushed.s), FunctionOf(func.func))]

\* Store::call from the return of func.call: `?` on a trap, and the RetValue.
Store_call_end(registry, func_addr, m) ==
  LET func == FunctionOf(get_function(registry, func_addr).func) IN
  IF m.status = "trap" THEN Error_from(m.s, m.trap)
  ELSE IF m.status # "done" THEN CallErr(m.s, m.status)
  ELSE IF m.ret # <<>>
  THEN IF func.ret_type # "none"
       THEN CallOk(m.s, << [type |-> func.ret_type, v |-> m.ret[1]] >>)
       ELSE Error_from(m.s, "UnexpectedSignature")
  ELSE CallOk(m.s, <<>>)

\* Store::call
Store_call(registry, s, func_addr, params) ==
  LET b == Store_call_begin(registry, s, func_addr, params) IN
  IF b.done THEN b.r ELSE Store_call_end(registry, func_addr, run(b.m, Fuel))

\* VMInstance::call
VMInstance_call(registry, s, module, name, params) ==
  LET func_addr == get_exported(registry, module, name) IN
  IF ~func_addr.ok THEN CallErr(s, func_addr.err)
  ELSE Store_call(registry, s, func_addr.addr, params)

\* The params lists a caller hands over: up to the largest arity of "T".
MaxParams ==
  CHOOSE n \in 0..Len(ThreadedFuncs) :
    /\ \A i \in 1..Len(ThreadedFuncs) : ThreadedFuncs[i].param_count <= n
    /\ \E i \in 1..Len(ThreadedFuncs) : ThreadedFuncs[i].param_count = n

ParamLists ==
  UNION {[1..n -> {[type |-> "I64", v |-> v] : v \in Vals}] : n \in 0..MaxParams}

CallLast(op, func_addr, params, r) ==
  [op |-> op, func_addr |-> func_addr, params |-> params, res |-> r.res,
   trap |-> r.trap,
   ret |-> r.ret, preLen |-> Len(store.stack), preBp |-> store.bp]

\* VMInstance::new: Store::new(state) with a default Stack.
ThreadedInit ==
  /\ store = new_with_limit(StoreLimit)
  /\ callLast = [op |-> "new", func_addr |-> 0, params |-> <<>>, res |-> "Ok",
                 trap |-> "none",
                 ret |-> <<>>, preLen |-> 0, preBp |-> 0]

\* A caller of the instance calls an export of module "m" by name.
InstanceCall ==
  /\ UNCHANGED notThreaded
  /\ callLast.res # "panic"
  /\ \E k \in 1..Len(ThreadedExports) : \E params \in ParamLists :
       LET r == VMInstance_call(ThreadedState, store, "m", ThreadedExports[k][1], params) IN
       /\ r.res # "OutOfFuel"
       /\ store' = r.s
       /\ callLast' = CallLast("call", ThreadedExports[k][2], params, r)

\* A caller of the instance looks up a name the module does not export, or a
\* module that is not loaded.
InstanceCallUnknown ==
  /\ UNCHANGED notThreaded
  /\ callLast.res # "panic"
  /\ \E target \in {<<"m", "nope">>, <<"n", "one">>} : \E params \in ParamLists :
       LET r == VMInstance_call(ThreadedState, store, target[1], target[2], params) IN
       /\ store' = r.s
       /\ callLast' = CallLast("lookup", 0, params, r)

\* An embedder calls Store::call itself, with a function address the
\* registry does not have.
StoreCallInvalid ==
  /\ UNCHANGED notThreaded
  /\ callLast.res # "panic"
  /\ \E params \in ParamLists :
       LET func_addr == Len(ThreadedState.funcs)
           r == Store_call(ThreadedState, store, func_addr, params) IN
       /\ store' = r.s
       /\ callLast' = CallLast("store", func_addr, params, r)

ThreadedNext == InstanceCall \/ InstanceCallUnknown \/ StoreCallInvalid

-----------------------------------------------------------------------------
(* SpecInstances: two instances spawned from one VM, each called on its own *)
(* thread; the threads interleave between any two instructions.             *)

\* The instances VM::spawn has produced.
Instances == {1, 2}

\* The most calls a caller makes on one instance.
MaxCalls == 2

\* The calls a caller makes: export of module "m" and params.
I64(v) == [type |-> "I64", v |-> v]

InstanceCalls ==
  { <<"twice", <<I64(1)>> >>, <<"trap", <<I64(0)>> >>,
    <<"id", <<I64(0), I64(1)>> >>, <<"one", <<>> >> }

\* VMInstance::new: Store::new(state) with a default Stack; the instance is
\* not in a call, and its caller has made no call.
VMInstance_new(registry) ==
  [s |-> new_with_limit(StoreLimit), busy |-> FALSE, m |-> Machine(registry, new_with_limit(StoreLimit)),
   func_addr |-> 0, call |-> <<>>, hist |-> <<>>, dead |-> FALSE]

\* A call has returned r to the caller of the instance: the Store keeps the
\* stack, the caller keeps the result.  A panic ends the caller's thread.
VMInstance_returned(v, call, r) ==
  [v EXCEPT !.s = r.s, !.busy = FALSE, !.m = Machine(v.m.state, r.s),
            !.hist = Append(@, [call |-> call, res |-> r.res, trap |-> r.trap,
                                ret |-> r.ret]),
            !.dead = (r.res = "panic")]

\* VMInstance::call up to the first instruction of the function.
VMInstance_call_begin(v, call) ==
  LET func_addr == get_exported(v.m.state, "m", call[1])
      b == Store_call_begin(v.m.state, v.s, func_addr.addr, call[2])
  IN IF ~func_addr.ok THEN VMInstance_returned(v, call, CallErr(v.s, func_addr.err))
     ELSE IF b.done THEN VMInstance_returned(v, call, b.r)
     ELSE [v EXCEPT !.busy = TRUE, !.m = b.m, !.func_addr = func_addr.addr,
                    !.call = call]

\* One instruction, or one return of Function::call, of the call in progress.
VMInstance_call_step(v) ==
  LET m == IF v.m.status = "run" THEN run_function(v.m) ELSE Function_return(v.m) IN
  IF m.status \in {"done", "trap"}
  THEN VMInstance_returned(v, v.call, Store_call_end(m.state, v.func_addr, m))
  ELSE [v EXCEPT !.m = m]

\* All instances keep one stack between them.
self_store_shared(all, i, v) ==
  [j \in DOMAIN all |->
     IF j = i THEN v
     ELSE [all[j] EXCEPT !.s = IF v.busy THEN v.m.s ELSE v.s,
                         !.m.s = IF v.busy THEN v.m.s ELSE v.s]]

\* `&mut self`: a call on instance i writes the Store of instance i.
self_store(all, i, v) == [all EXCEPT ![i] = v]

\* VM::new, load_file("m", "T"), and one VM::spawn per instance.
InstancesInit ==
  /\ shared = ThreadedState
  /\ vmi = [i \in Instances |-> VMInstance_new(ThreadedState)]

\* The caller of instance i starts a call.
CallBegin ==
  /\ UNCHANGED notInstances
  /\ \E i \in Instances : \E call \in InstanceCalls :
       /\ ~vmi[i].busy /\ ~vmi[i].dead
       /\ Len(vmi[i].hist) < MaxCalls
       /\ vmi' = self_store(vmi, i, VMInstance_call_begin([vmi[i] EXCEPT !.m.state = shared], call))
  /\ shared' = shared

\* The thread of instance i executes its next instruction.
CallStep ==
  /\ UNCHANGED notInstances
  /\ \E i \in Instances :
       /\ vmi[i].busy
       /\ vmi' = self_store(vmi, i, VMInstance_call_step(vmi[i]))
       /\ shared' = vmi[i].m.state

InstancesNext == CallBegin \/ CallStep

-----------------------------------------------------------------------------
(* SpecRecursion: one instance of a module whose functions call themselves  *)
(* unconditionally, one instruction at a time.                              *)

\* The nesting of Function::call up to which the model follows a call: past
\* every nesting the stack limit can account for.
HostNest == StoreLimit + 3

\* The calls a caller makes: every export with params of its arity.
RecursiveCalls ==
  { call \in {RecursiveExports[e][1] : e \in 1..Len(RecursiveExports)} \X ParamLists :
      \E e \in 1..Len(RecursiveExports) :
        /\ RecursiveExports[e][1] = call[1]
        /\ Len(call[2]) = RecursiveFuncs[RecursiveExports[e][2] + 1].param_count }

\* VM::new, load_file("m", "R"), VM::spawn.
RecursionInit == rec = VMInstance_new(RecursiveState)

\* The caller starts a call.
RecBegin ==
  /\ UNCHANGED notRecursion
  /\ ~rec.busy /\ ~rec.dead
  /\ Len(rec.hist) < MaxCalls
  /\ \E call \in RecursiveCalls : rec' = VMInstance_call_begin(rec, call)

\* The next instruction of the call, while the host stack lasts.
RecStep ==
  /\ UNCHANGED notRecursion
  /\ rec.busy
  /\ Len(rec.m.frames) <= HostNest
  /\ rec' = VMInstance_call_step(rec)

RecursionNext == RecBegin \/ RecStep

-----------------------------------------------------------------------------
(* The closure back-end at run time: Block::run, the thunks and the Input  *)
(* closures of src/src/compiler.rs under Store::call.                      *)

\* enum Action
Action_End == [a |-> "End", d |-> 0, ret |-> <<>>]
Action_Return(ret) == [a |-> "Return", d |-> 0, ret |-> ret]
Action_Branch(depth) == [a |-> "Branch", d |-> depth, ret |-> <<>>]

\* The back-end between two steps: the stack, the l0 cell of the function
\* that is running, and the Rust call chain k (innermost last):
\*   "call"   Function::call, keeping old_bp and the caller's l0
\*   "block"  Block::run at thunk i of blk
\*   "thunk"  a thunk waiting for the value of its Input
\*   "op"     an Input::Op closure waiting for the values of its Inputs
\* mode says what happens next: "block" the top Block::run runs thunk i,
\* "eval" inp is resolved, "value" val is handed to the top of k, "action"
\* act is handed to the top of k, "idle" no call is running.  invoked lists
\* the functions the Call closures of this call have invoked so far.
Idle(s) ==
  [s |-> s, l0 |-> 0, k |-> <<>>, mode |-> "idle", inp |-> <<>>, val |-> 0,
   act |-> Action_End, res |-> "none", trap |-> "none", ret |-> <<>>,
   func_addr |-> 0, params |-> <<>>, pre |-> s, invoked |-> <<>>]

KTop(m) == m.k[Len(m.k)]
KPop(m) == SubSeq(m.k, 1, Len(m.k) - 1)

CTrap(m, s, t) == [m EXCEPT !.s = s, !.mode = "trap", !.trap = t]
CErr(m, e) == [m EXCEPT !.mode = "done", !.res = e]
CPanic(m) == [m EXCEPT !.mode = "panic", !.res = "panic"]
CValue(m, k, v) == [m EXCEPT !.k = k, !.mode = "value", !.val = v]
CAction(m, k, a) == [m EXCEPT !.k = k, !.mode = "action", !.act = a]
CEnter(m, k, blk) ==
  [m EXCEPT !.k = Append(k, [f |-> "block", blk |-> blk, i |-> 1]), !.mode = "block"]

\* Stack::get_local_val(idx, l0): local 0 is the l0 cell, the others are the
\* frame slots bp + idx.
get_local_val_l0(m, idx) ==
  IF idx = 0 THEN CValue(m, m.k, m.l0)
  ELSE IF m.s.bp + idx < Len(m.s.stack) THEN CValue(m, m.k, m.s.stack[m.s.bp + idx + 1])
  ELSE CPanic(m)

\* Stack::set_local_val(idx, val, l0), then `next` of the caller.
set_local_val_l0(m, idx, val, next) ==
  IF idx = 0 THEN [next EXCEPT !.l0 = val]
  ELSE IF m.s.bp + idx < Len(m.s.stack)
  THEN [next EXCEPT !.s.stack[m.s.bp + idx + 1] = val]
  ELSE CPanic(m)

\* Function::call with the l0 of the callee: push_frame, the locals, and the
\* function's closure starts block.run.
Function_call_l0(m, k, func, l0) ==
  LET old_bp == push_frame(m.s, func.param_count) IN
  IF ~old_bp.ok THEN CTrap(m, old_bp.s, old_bp.trap)
  ELSE LET l == reserve_locals(old_bp.s, func.local_count) IN
       IF ~l.ok THEN CTrap(m, l.s, l.trap)
       ELSE CEnter([m EXCEPT !.s = l.s, !.l0 = l0],
                   Append(k, [f |-> "call", old_bp |-> old_bp.val, l0 |-> m.l0]),
                   func.block)

\* Store::invoke_function(func_addr, l0)
invoke_function_l0(m, k, func_addr, l0) ==
  LET g == get_function(ClosureState, func_addr) IN
  IF ~g.ok THEN CTrap(m, m.s, g.err)
  ELSE Function_call_l0(m, k, ClosureCompiled[g.func.idx + 1], l0)

\* Block::run, `for f in self.eval.iter()`: thunk i is called, or the block
\* is at its end.
Block_run(m) ==
  LET top == KTop(m)
      f == top.blk.eval[top.i]
  IN IF top.i > Len(top.blk.eval) THEN CAction(m, KPop(m), Action_End)
     ELSE CASE f.t = "block" -> CEnter(m, m.k, f.block[1])
       [] f.t = "br" -> CAction(m, m.k, Action_Branch(f.n))
       [] f.t = "return_none" -> CAction(m, m.k, Action_Return(<<>>))
       [] OTHER -> [m EXCEPT !.k = Append(@, [f |-> "thunk", thunk |-> f]),
                             !.mode = "eval", !.inp = f.input]

\* Input::resolv, and the start of an Input::Op closure.
Input_resolv(m) ==
  LET input == m.inp[1] IN
  CASE input.k = "Local" -> get_local_val_l0(m, input.n)
    [] input.k = "Const" -> CValue(m, m.k, input.n)
    [] input.k = "Op" ->
         [m EXCEPT !.k = Append(@, [f |-> "op", op |-> input.op, n |-> input.n,
                                    args |-> input.args, vals |-> <<>>]),
                   !.inp = <<input.args[1]>>]

\* An Input::Op closure has the values of its Inputs.
Op_apply(m, k, op, n, vals) ==
  CASE op = "I64Add" -> CValue(m, k, wrapping_add(vals[1], vals[2]))
    [] op = "I64Sub" -> CValue(m, k, vals[1] - vals[2])
    [] op = "I64Eqz" -> CValue(m, k, IF vals[1] = 0 THEN 1 ELSE 0)
    [] op = "tee" -> set_local_val_l0(m, n, vals[1], CValue(m, k, vals[1]))
    [] op = "call" ->
         invoke_function_l0([m EXCEPT !.invoked = Append(@, n)], k, n, vals[1])

\* A thunk has the value of its Input.
Thunk_apply(m, k, f, val) ==
  CASE f.t = "return" -> CAction(m, k, Action_Return(<<val>>))
    [] f.t = "set_local" -> set_local_val_l0(m, f.n, val, CAction(m, k, Action_End))
    [] f.t = "br_if" ->
         CAction(m, k, IF val # 0 THEN Action_Branch(f.n) ELSE Action_End)
    [] f.t = "if" ->
         IF val # 0 THEN CEnter(m, k, f.block[1])
         ELSE IF Len(f.block) = 2 THEN CEnter(m, k, f.block[2])
         ELSE CAction(m, k, Action_End)

\* A value comes back to the closure or thunk that asked for it.
Value_return(m) ==
  LET top == KTop(m)
      vals == Append(top.vals, m.val)
  IN IF top.f = "thunk" THEN Thunk_apply(m, KPop(m), top.thunk, m.val)
     ELSE IF Len(vals) < Len(top.args)
     THEN [m EXCEPT !.k[Len(m.k)].vals = vals, !.mode = "eval",
                    !.inp = <<top.args[Len(vals) + 1]>>]
     ELSE Op_apply(m, KPop(m), top.op, top.n, vals)

\* A `?` that takes the Err of a thunk in a Loop for a Branch(0).
Trap_return_caught(m) ==
  IF m.k # <<>> /\ KTop(m).f = "block" /\ KTop(m).blk.kind = "Loop"
  THEN [m EXCEPT !.k[Len(m.k)].i = 1, !.mode = "block", !.trap = "none"]
  ELSE IF m.k = <<>>
  THEN [m EXCEPT !.mode = "done", !.res = "RuntimeError"]
  ELSE [m EXCEPT !.k = KPop(m)]

\* `?` on an Err(trap): the closure, thunk, Block::run or Function::call
\* that made the call returns the same Err to its own caller; out of
\* Store::call it is Error::from(trap).
Trap_return(m) ==
  IF m.k = <<>>
  THEN [m EXCEPT !.mode = "done", !.res = "RuntimeError"]
  ELSE [m EXCEPT !.k = KPop(m)]

\* A Block::run that handles every Branch at the block that receives it.
Block_match_innermost(m) ==
  LET top == KTop(m) IN
  CASE m.act.a = "Return" -> CAction(m, KPop(m), m.act)
    [] m.act.a = "End" -> [m EXCEPT !.k[Len(m.k)].i = @ + 1, !.mode = "block"]
    [] m.act.a = "Branch" ->
         IF top.blk.kind = "Loop"
         THEN [m EXCEPT !.k[Len(m.k)].i = 1, !.mode = "block"]
         ELSE CAction(m, KPop(m), Action_End)

\* A Block::run whose Loop goes on with its next thunk on a Return.
Block_match_return_kept(m) ==
  LET top == KTop(m) IN
  CASE m.act.a = "Return" ->
         IF top.blk.kind = "Loop" THEN [m EXCEPT !.k[Len(m.k)].i = @ + 1, !.mode = "block"]
         ELSE CAction(m, KPop(m), m.act)
    [] m.act.a = "End" -> [m EXCEPT !.k[Len(m.k)].i = @ + 1, !.mode = "block"]
    [] m.act.a = "Branch" ->
         IF m.act.d > 0 THEN CAction(m, KPop(m), Action_Branch(m.act.d - 1))
         ELSE IF top.blk.kind = "Loop"
         THEN [m EXCEPT !.k[Len(m.k)].i = 1, !.mode = "block"]
         ELSE CAction(m, KPop(m), Action_End)

\* A Block::run whose Loop is left by a Branch(0), as a Block is.
Block_match_loop_left(m) ==
  LET top == KTop(m) IN
  CASE m.act.a = "Return" -> CAction(m, KPop(m), m.act)
    [] m.act.a = "End" -> [m EXCEPT !.k[Len(m.k)].i = @ + 1, !.mode = "block"]
    [] m.act.a = "Branch" ->
         IF m.act.d > 0 THEN CAction(m, KPop(m), Action_Branch(m.act.d - 1))
         ELSE CAction(m, KPop(m), Action_End)

\* Block::run, `match ret`: the Action thunk i returned.
Block_match(m) ==
  LET top == KTop(m) IN
  CASE m.act.a = "Return" -> CAction(m, KPop(m), m.act)
    [] m.act.a = "End" -> [m EXCEPT !.k[Len(m.k)].i = @ + 1, !.mode = "block"]
    [] m.act.a = "Branch" ->
         IF m.act.d > 0 THEN CAction(m, KPop(m), Action_Branch(m.act.d - 1))
         ELSE IF top.blk.kind = "Loop"
         THEN [m EXCEPT !.k[Len(m.k)].i = 1, !.mode = "block"]
         ELSE CAction(m, KPop(m), Action_End)

\* Store::call from the Option the function returned: the RetValue.
Store_call_ret(m, func, ret) ==
  IF ret # <<>>
  THEN IF func.ret_type # "none"
       THEN [m EXCEPT !.mode = "done", !.res = "Ok",
                      !.ret = << [type |-> func.ret_type, v |-> ret[1]] >>]
       ELSE [m EXCEPT !.mode = "done", !.res = "RuntimeError",
                      !.trap = "UnexpectedSignature"]
  ELSE [m EXCEPT !.mode = "done", !.res = "Ok", !.ret = <<>>]

\* A return after which the caller goes on with the l0 cell of the callee.
Function_return_l0_shared(m) ==
  LET top == KTop(m)
      s == pop_frame(m.s, top.old_bp)
      caller == [m EXCEPT !.s = s]
  IN IF m.act.a # "Return" THEN CPanic(m)
     ELSE IF Len(m.k) = 1
     THEN Store_call_ret([caller EXCEPT !.k = <<>>],
                         ClosureCompiled[get_function(ClosureState, m.func_addr).func.idx + 1],
                         m.act.ret)
     ELSE CValue(caller, KPop(m), IF m.act.ret # <<>> THEN m.act.ret[1] ELSE 0)

\* The closure of compile_function has the Action of block.run: Return(ret)
\* is Ok(ret), anything else is `unreachable!`.  Function::call pops the
\* frame; the Call closure of the caller, if there is one, goes on with ret
\* or StackValue(0) and with its own l0.
Function_return_l0(m) ==
  LET top == KTop(m)
      s == pop_frame(m.s, top.old_bp)
      caller == [m EXCEPT !.s = s, !.l0 = top.l0]
  IN IF m.act.a # "Return" THEN CPanic(m)
     ELSE IF Len(m.k) = 1
     THEN Store_call_ret([caller EXCEPT !.k = <<>>],
                         ClosureCompiled[get_function(ClosureState, m.func_addr).func.idx + 1],
                         m.act.ret)
     ELSE CValue(caller, KPop(m), IF m.act.ret # <<>> THEN m.act.ret[1] ELSE 0)

\* Store::call up to func.call(self, &mut l0).
Store_call_l0(s, func_addr, params) ==
  LET m == [Idle(s) EXCEPT !.func_addr = func_addr, !.params = params]
      pushed == push_params(s, params)
      func == get_function(ClosureState, func_addr)
  IN IF ~pushed.ok THEN CTrap(m, pushed.s, pushed.trap)
     ELSE IF ~func.ok THEN CTrap(m, pushed.s, func.err)
     ELSE IF Len(params) = 0 THEN CPanic([m EXCEPT !.s = pushed.s])
     ELSE Function_call_l0([m EXCEPT !.s = pushed.s], <<>>,
                           ClosureCompiled[func.func.idx + 1],
                           StackValue_from(params[1]))

\* VMInstance::call
VMInstance_call_l0(s, module, name, params) ==
  LET func_addr == get_exported(ClosureState, module, name) IN
  IF ~func_addr.ok
  THEN CErr([Idle(s) EXCEPT !.params = params], func_addr.err)
  ELSE Store_call_l0(s, func_addr.addr, params)

-----------------------------------------------------------------------------
(* SpecClosure: calls of the exports of module "c", one step of the         *)
(* closures at a time.                                                      *)

\* The stack limit of the instance's Store (DEFAULT_STACK_LIMIT, scaled).
ClosureLimit == 2

NoBranch == [set |-> FALSE, k |-> <<>>, d |-> 0]

\* The Branch a thunk has just returned, with the chain of blocks it was
\* returned into.
BranchOf(m) ==
  IF m.mode = "action" /\ m.act.a = "Branch"
  THEN [set |-> TRUE, k |-> m.k, d |-> m.act.d]
  ELSE NoBranch

CLast(m) ==
  [op |-> "call", func_addr |-> m.func_addr, params |-> m.params,
   res |-> m.res, trap |-> m.trap, ret |-> m.ret, pre |-> m.pre,
   invoked |-> m.invoked]

\* The step leaves the back-end in m: at work, or back at the caller of the
\* instance with the result.  A panic ends the thread.
Settle(m) ==
  IF m.mode \in {"done", "panic"}
  THEN /\ cm' = IF m.mode = "panic" THEN m ELSE Idle(m.s)
       /\ cLast' = CLast(m)
  ELSE /\ cm' = m
       /\ cLast' = cLast

ClosureInit ==
  /\ cm = Idle(new_with_limit(ClosureLimit))
  /\ cLast = [op |-> "new", func_addr |-> 0, params |-> <<>>, res |-> "Ok",
              trap |-> "none",
              ret |-> <<>>, pre |-> new_with_limit(ClosureLimit), invoked |-> <<>>]
  /\ brAt = NoBranch

\* A caller of the instance calls an export of module "c" by name.
ClosureCall ==
  /\ UNCHANGED notClosure
  /\ cm.mode = "idle"
  /\ \E e \in 1..Len(ClosureExports) : \E params \in ParamLists :
       Settle(VMInstance_call_l0(cm.s, "c", ClosureExports[e][1], params))
  /\ brAt' = NoBranch

\* Block::run calls its next thunk, or is at its end.
BlockRun ==
  /\ UNCHANGED notClosure
  /\ cm.mode = "block"
  /\ Settle(Block_run(cm))
  /\ brAt' = BranchOf(Block_run(cm))

\* An Input is resolved.
Resolv ==
  /\ UNCHANGED notClosure
  /\ cm.mode = "eval"
  /\ Settle(Input_resolv(cm))
  /\ brAt' = NoBranch

\* A value is handed to the closure or thunk that waits for it.
Apply ==
  /\ UNCHANGED notClosure
  /\ cm.mode = "value"
  /\ Settle(Value_return(cm))
  /\ brAt' = BranchOf(Value_return(cm))

\* A Block::run gets the Action of the thunk it called.
BlockMatch ==
  /\ UNCHANGED notClosure
  /\ cm.mode = "action"
  /\ KTop(cm).f = "block"
  /\ Settle(Block_match(cm))
  /\ brAt' = brAt

\* The function's own block has returned its Action.
FunctionReturn ==
  /\ UNCHANGED notClosure
  /\ cm.mode = "action"
  /\ KTop(cm).f = "call"
  /\ Settle(Function_return_l0(cm))
  /\ brAt' = NoBranch

\* An Err(trap) passes one `?`.
TrapReturn ==
  /\ UNCHANGED notClosure
  /\ cm.mode = "trap"
  /\ Settle(Trap_return(cm))
  /\ brAt' = NoBranch

ClosureNext ==
  \/ ClosureCall \/ BlockRun \/ Resolv \/ Apply \/ BlockMatch \/ FunctionReturn
  \/ TrapReturn

-----------------------------------------------------------------------------
(* The integer operators of the threaded interpreter, the modules i32_ops  *)
(* and i64_ops of src/src/function.rs (the same macros are in              *)
(* src/src/compiler.rs).  A value is the sequence of its bits, least       *)
(* significant first, at its full width: 64 bits for a stack cell.         *)

\* The integer types of the operators and of the casts around them.
Width(type) == IF type \in {"i32", "u32"} THEN 32 ELSE 64

Signed(type) == type \in {"i32", "i64"}

\* impl_numeric_ops!(i32_ops, i32, u32) and impl_numeric_ops!(i64_ops, i64, u64):
\* the unsigned type each module is given.
type_u(type) == IF type = "i32" THEN "u32" ELSE "u64"

\* Rust's `as` between integer types: truncation to a narrower type, sign
\* extension from a signed type and zero extension from an unsigned one.
as_type(v, from, to) ==
  [i \in 1..Width(to) |->
     IF i <= Len(v) THEN v[i] ELSE IF Signed(from) THEN v[Len(v)] ELSE 0]

\* The value n of 0 .. 2^31 - 1 at width w.
FromNat(n, w) == [i \in 1..w |-> IF i > 31 THEN 0 ELSE (n \div 2^(i - 1)) % 2]

\* The number a value stands for as unsigned; only asked of values below 2^31.
RECURSIVE ToNat(_)
ToNat(v) == IF v = <<>> THEN 0 ELSE v[1] + 2 * ToNat(Tail(v))

IsZero(v) == \A i \in 1..Len(v) : v[i] = 0

\* The sum a + b + c of two values and a carry, modulo 2^Len(a): acc holds
\* the bits of the sum below bit Len(acc) + 1 and c is the carry into it.
RECURSIVE add_carry(_, _, _, _)
add_carry(a, b, c, acc) ==
  IF Len(acc) >= Len(a) THEN acc
  ELSE add_carry(a, b, (a[Len(acc) + 1] + b[Len(acc) + 1] + c) \div 2,
                 Append(acc, (a[Len(acc) + 1] + b[Len(acc) + 1] + c) % 2))

\* std: {i32,i64}::wrapping_add on bit patterns.
wrapping_add_bits(a, b) == add_carry(a, b, 0, <<>>)

\* std: Not
not(a) == [i \in 1..Len(a) |-> 1 - a[i]]

\* std: wrapping_sub, a + !b + 1.
wrapping_sub(a, b) == add_carry(a, not(b), 1, <<>>)

\* std: wrapping_neg
wrapping_neg(a) == wrapping_sub(FromNat(0, Len(a)), a)

\* The value moved n bits towards the most significant bit, zeros entering.
shl_bits(a, n) == [i \in 1..Len(a) |-> IF i > n THEN a[i - n] ELSE 0]

\* The value moved n bits towards the least significant bit, copies of the
\* sign bit entering (the shift of a signed type).
sar_bits(a, n) == [i \in 1..Len(a) |-> IF i + n <= Len(a) THEN a[i + n] ELSE a[Len(a)]]

\* The same with zeros entering (the shift of an unsigned type).
shr_bits(a, n) == [i \in 1..Len(a) |-> IF i + n <= Len(a) THEN a[i + n] ELSE 0]

\* std: wrapping_mul, the sum of a << i over the bits i of b; acc is the sum
\* over the bits below i.
RECURSIVE mul_bits(_, _, _, _)
mul_bits(a, b, i, acc) ==
  IF i > Len(b) \/ Len(acc) # Len(a) THEN acc
  ELSE mul_bits(a, b, i + 1,
                IF b[i] = 1 THEN wrapping_add_bits(acc, shl_bits(a, i - 1)) ELSE acc)

wrapping_mul(a, b) == mul_bits(a, b, 1, FromNat(0, Len(a)))

\* std: BitAnd, BitOr, BitXor
bitand(a, b) == [i \in 1..Len(a) |-> a[i] * b[i]]

bitor(a, b) == [i \in 1..Len(a) |-> IF a[i] + b[i] > 0 THEN 1 ELSE 0]

bitxor(a, b) == [i \in 1..Len(a) |-> (a[i] + b[i]) % 2]

\* a < b as unsigned numbers.
ult(a, b) ==
  \E i \in 1..Len(a) : a[i] < b[i] /\ \A j \in (i + 1)..Len(a) : a[j] = b[j]

\* The smallest value of a signed type and the value -1.
INT_MIN(w) == [i \in 1..w |-> IF i = w THEN 1 ELSE 0]

INT_MAX(w) == [i \in 1..w |-> IF i = w THEN 0 ELSE 1]

MinusOne(w) == [i \in 1..w |-> 1]

\* |a| of a signed value, as an unsigned number (2^(w-1) for INT_MIN).
unsigned_abs(a) == IF a[Len(a)] = 1 THEN wrapping_neg(a) ELSE a

\* The position of the most significant 1 of a value, 0 if there is none.
HighBit(v) ==
  IF IsZero(v) THEN 0
  ELSE CHOOSE i \in 1..Len(v) : v[i] = 1 /\ \A j \in (i + 1)..Len(v) : v[j] = 0

\* Unsigned quotient and remainder of a by b # 0, both at most 2^(w-1):
\* long division from bit i of a down, q and r being those of the bits of a
\* above i.
RECURSIVE udivrem(_, _, _, _, _)
udivrem(a, b, i, q, r) ==
  IF i = 0 \/ Len(q) # Len(a) THEN [q |-> q, r |-> r]
  ELSE IF ult([j \in 1..Len(a) |-> IF j = 1 THEN a[i] ELSE r[j - 1]], b)
       THEN udivrem(a, b, i - 1, [q EXCEPT ![i] = 0],
                    [j \in 1..Len(a) |-> IF j = 1 THEN a[i] ELSE r[j - 1]])
       ELSE udivrem(a, b, i - 1, [q EXCEPT ![i] = 1],
                    wrapping_sub([j \in 1..Len(a) |-> IF j = 1 THEN a[i] ELSE r[j - 1]], b))

Some(v) == [some |-> TRUE, val |-> v]

None == [some |-> FALSE, val |-> <<>>]

\* std: {i32,i64}::checked_div: None if the divisor is 0 or the quotient
\* overflows, else the quotient rounded towards zero.
checked_div(a, b) ==
  IF IsZero(b) \/ (a = INT_MIN(Len(a)) /\ b = MinusOne(Len(a))) THEN None
  ELSE IF a[Len(a)] # b[Len(a)]
       THEN Some(wrapping_neg(udivrem(unsigned_abs(a), unsigned_abs(b), HighBit(unsigned_abs(a)),
                                      FromNat(0, Len(a)), FromNat(0, Len(a))).q))
       ELSE Some(udivrem(unsigned_abs(a), unsigned_abs(b), HighBit(unsigned_abs(a)),
                         FromNat(0, Len(a)), FromNat(0, Len(a))).q)

\* std: {i32,i64}::checked_rem: None if the divisor is 0 or the division
\* overflows, else the remainder, with the sign of the dividend.
checked_rem(a, b) ==
  IF IsZero(b) \/ (a = INT_MIN(Len(a)) /\ b = MinusOne(Len(a))) THEN None
  ELSE IF a[Len(a)] = 1
       THEN Some(wrapping_neg(udivrem(unsigned_abs(a), unsigned_abs(b), HighBit(unsigned_abs(a)),
                                      FromNat(0, Len(a)), FromNat(0, Len(a))).r))
       ELSE Some(udivrem(unsigned_abs(a), unsigned_abs(b), HighBit(unsigned_abs(a)),
                         FromNat(0, Len(a)), FromNat(0, Len(a))).r)

\* std: wrapping_shl(rhs: u32) and wrapping_shr(rhs: u32) of a signed type:
\* the shift by rhs masked to the width of the type.
wrapping_shl(a, rhs) == shl_bits(a, rhs % Len(a))

wrapping_shr(a, rhs) == sar_bits(a, rhs % Len(a))

\* The count of a rotation at the width of a: rhs modulo the width, which is
\* what the low 5 (32 bits) or 6 (64 bits) bits of rhs say.
RotCount(a, rhs) == ToNat(SubSeq(rhs, 1, IF Len(a) = 32 THEN 5 ELSE 6))

\* std: {i32,i64}::rotate_left(n: u32) and rotate_right(n: u32): the bits
\* leaving at one end enter at the other.
rotate_left(a, rhs) ==
  [i \in 1..Len(a) |-> a[((i - 1 - RotCount(a, rhs)) % Len(a)) + 1]]

rotate_right(a, rhs) ==
  [i \in 1..Len(a) |-> a[((i - 1 + RotCount(a, rhs)) % Len(a)) + 1]]

\* The mask the shift operators put on the count.
ShiftMask == 31

\* FromStack::pop for type T: the cell `as T`; FromStack::push: the value
\* `as u64`.
pop_as(cell, type) == as_type(cell, "u64", type)

push_as(v, type) == as_type(v, type, "u64")

\* The operand stack of a numeric operator: Ok with the stack after it, or
\* the trap it raised.
NumOk(stack) == [trap |-> "none", stack |-> stack]

NumTrap(t, stack) == [trap |-> t, stack |-> stack]

\* FromStack::pop_pair for type T: right is popped first.
num_pop_pair(stack, type) ==
  [left |-> pop_as(stack[Len(stack) - 1], type),
   right |-> pop_as(stack[Len(stack)], type),
   stack |-> SubSeq(stack, 1, Len(stack) - 2)]

\* A binop macro whose add traps where the signed sum leaves the range of
\* the type.
impl_int_binops_checked(stack, type, op) ==
  LET left == num_pop_pair(stack, type).left
      right == num_pop_pair(stack, type).right
      res == CASE op = "wrapping_add" -> wrapping_add_bits(left, right)
               [] op = "wrapping_sub" -> wrapping_sub(left, right)
               [] op = "wrapping_mul" -> wrapping_mul(left, right)
               [] op = "bitand" -> bitand(left, right)
               [] op = "bitor" -> bitor(left, right)
               [] op = "bitxor" -> bitxor(left, right)
  IN IF /\ op = "wrapping_add"
        /\ left[Width(type)] = right[Width(type)]
        /\ res[Width(type)] # left[Width(type)]
     THEN NumTrap("InvalidConversionToInt", num_pop_pair(stack, type).stack)
     ELSE NumOk(Append(num_pop_pair(stack, type).stack, push_as(res, type)))

\* impl_int_binops!(store, $type, $op): pop_pair, left.$op(right), push.
impl_int_binops(stack, type, op) ==
  LET left == num_pop_pair(stack, type).left
      right == num_pop_pair(stack, type).right
  IN NumOk(Append(num_pop_pair(stack, type).stack,
       push_as(CASE op = "wrapping_add" -> wrapping_add_bits(left, right)
                 [] op = "wrapping_sub" -> wrapping_sub(left, right)
                 [] op = "wrapping_mul" -> wrapping_mul(left, right)
                 [] op = "bitand" -> bitand(left, right)
                 [] op = "bitor" -> bitor(left, right)
                 [] op = "bitxor" -> bitxor(left, right), type)))

\* impl_int_binops!(store, $type, $op, $as_type, $mask):
\* left.$op((right & $mask) as u32), pushed `as $as_type`.
impl_int_binops_mask(stack, type, op, as, mask) ==
  LET left == num_pop_pair(stack, type).left
      right == num_pop_pair(stack, type).right
      rhs == ToNat(as_type(bitand(right, FromNat(mask, Width(type))), type, "u32"))
  IN NumOk(Append(num_pop_pair(stack, type).stack,
       push_as(as_type(CASE op = "wrapping_shl" -> wrapping_shl(left, rhs)
                         [] op = "wrapping_shr" -> wrapping_shr(left, rhs),
                       type, as), as)))

\* impl_int_binops!(store, $type, $type2, $op, $as_type): left is popped
\* first, as $type, then right, as $type2; left.$op(right) is pushed
\* `as $as_type`.
impl_int_binops_pop(stack, type, type2, op, as) ==
  LET left == pop_as(stack[Len(stack)], type)
      right == pop_as(stack[Len(stack) - 1], type2)
  IN NumOk(Append(SubSeq(stack, 1, Len(stack) - 2),
       push_as(as_type(CASE op = "rotate_left" -> rotate_left(left, right)
                         [] op = "rotate_right" -> rotate_right(left, right),
                       type, as), as)))

\* A division macro that reports every None as DivisionByZero.
impl_int_binops_div_zero(stack, type, op, as) ==
  LET left == num_pop_pair(stack, type).left
      right == num_pop_pair(stack, type).right
      res == IF op = "checked_div" THEN checked_div(left, right)
             ELSE checked_rem(left, right)
  IN IF ~res.some
     THEN NumTrap("DivisionByZero", num_pop_pair(stack, type).stack)
     ELSE NumOk(Append(num_pop_pair(stack, type).stack,
                       push_as(as_type(res.val, type, as), as)))

\* impl_int_binops_div!(store, $type, $op, $as_type): a None of the checked
\* operator is DivisionByZero if right is 0 and InvalidConversionToInt if not.
impl_int_binops_div(stack, type, op, as) ==
  LET left == num_pop_pair(stack, type).left
      right == num_pop_pair(stack, type).right
      res == IF op = "checked_div" THEN checked_div(left, right)
             ELSE checked_rem(left, right)
  IN IF ~res.some
     THEN NumTrap(IF IsZero(right) THEN "DivisionByZero" ELSE "InvalidConversionToInt",
                  num_pop_pair(stack, type).stack)
     ELSE NumOk(Append(num_pop_pair(stack, type).stack,
                       push_as(as_type(res.val, type, as), as)))

\* run_function's arm for the opcode, I32Add => i32_ops::add(store) and so
\* on, with the function of i32_ops (type "i32") or i64_ops (type "i64").
numeric_op(op, type, stack) ==
  CASE op = "add" -> impl_int_binops(stack, type, "wrapping_add")
    [] op = "sub" -> impl_int_binops(stack, type, "wrapping_sub")
    [] op = "mul" -> impl_int_binops(stack, type, "wrapping_mul")
    [] op = "div_s" -> impl_int_binops_div(stack, type, "checked_div", "i64")
    [] op = "div_u" -> impl_int_binops_div(stack, type, "checked_div", "u64")
    [] op = "rem_s" -> impl_int_binops_div(stack, type, "checked_rem", "i64")
    [] op = "rem_u" -> impl_int_binops_div(stack, type, "checked_rem", "u64")
    [] op = "and" -> impl_int_binops(stack, type, "bitand")
    [] op = "or" -> impl_int_binops(stack, type, "bitor")
    [] op = "xor" -> impl_int_binops(stack, type, "bitxor")
    [] op = "shl" ->
         impl_int_binops_mask(stack, type, "wrapping_shl", type_u(type), ShiftMask)
    [] op = "shr_s" ->
         impl_int_binops_mask(stack, type, "wrapping_shr", type_u(type), ShiftMask)
    [] op = "shr_u" ->
         impl_int_binops_mask(stack, type, "wrapping_shr", type_u(type), ShiftMask)
    [] op = "rotl" -> impl_int_binops_pop(stack, type, "u32", "rotate_left", "u64")
    [] op = "rotr" -> impl_int_binops_pop(stack, type, "u32", "rotate_right", "u64")

-----------------------------------------------------------------------------
(* SpecNumeric: one integer operator applied to two operands pushed on a   *)
(* fresh, empty operand stack, for operands at and around the ends of the  *)
(* range of each type.                                                     *)

IntTypes == {"i32", "i64"}

\* The operands: 0, 1, 2, 7, -1, -7, INT_MIN and INT_MAX.
Operands(type) ==
  {FromNat(0, Width(type)), FromNat(1, Width(type)), FromNat(2, Width(type)),
   FromNat(7, Width(type)), MinusOne(Width(type)),
   wrapping_neg(FromNat(7, Width(type))),
   INT_MIN(Width(type)), INT_MAX(Width(type))}

\* The shift counts: around 0, the 32-bit width and the 64-bit width.
Counts(type) == {FromNat(k, Width(type)) : k \in {0, 1, 31, 32, 33, 63, 64, 65}}

BinOps == {"add", "sub", "mul", "and", "or", "xor"}

DivOps == {"div_s", "div_u", "rem_s", "rem_u"}

ShiftOps == {"shl", "shr_s", "shr_u"}

RotOps == {"rotl", "rotr"}

\* The operator applied last [op, type], its operands as typed values, and
\* what it left: the trap, or the result cell and the result as the type.
NumLast(op, type, left, right) ==
  LET r == numeric_op(op, type, <<push_as(left, type), push_as(right, type)>>) IN
  [op |-> op, type |-> type, left |-> left, right |-> right,
   trap |-> r.trap, stack |-> r.stack,
   res |-> IF r.trap = "none" THEN pop_as(r.stack[1], type) ELSE <<>>]

NumericInit ==
  num = [op |-> "new", type |-> "i64", left |-> <<>>, right |-> <<>>,
         trap |-> "none", stack |-> <<>>, res |-> <<>>]

Binop ==
  /\ UNCHANGED notNumeric
  /\ num.op = "new"
  /\ \E op \in BinOps, type \in IntTypes :
       \E left \in Operands(type), right \in Operands(type) :
         num' = NumLast(op, type, left, right)

Div ==
  /\ UNCHANGED notNumeric
  /\ num.op = "new"
  /\ \E op \in DivOps, type \in IntTypes :
       \E left \in Operands(type), right \in Operands(type) :
         num' = NumLast(op, type, left, right)

Shift ==
  /\ UNCHANGED notNumeric
  /\ num.op = "new"
  /\ \E op \in ShiftOps, type \in IntTypes :
       \E left \in Operands(type), right \in Counts(type) :
         num' = NumLast(op, type, left, right)

Rotate ==
  /\ UNCHANGED notNumeric
  /\ num.op = "new"
  /\ \E op \in RotOps, type \in IntTypes :
       \E left \in Operands(type), right \in Counts(type) :
         num' = NumLast(op, type, left, right)

NumericNext == Binop \/ Div \/ Shift \/ Rotate

-----------------------------------------------------------------------------
(* SpecReturn: what Store::call makes of the Option<StackValue> that        *)
(* func.call has returned, for every declared return type and for return   *)
(* cells at their full width of 64 bits.                                   *)

\* Option<ValueType> of a function: ValueType, or "none" for a void function.
RetTypes == {"I32", "I64", "F32", "F64", "none"}

\* The match on ret_type in Store::call: Value::I32(ret.0 as _),
\* Value::I64(ret.0 as _), Value::F32(f32::from_bits(ret.0 as _)),
\* Value::F64(f64::from_bits(ret.0 as _)); a float is held as its bits.
Value_of(ret_type, cell) ==
  [type |-> ret_type,
   v |-> CASE ret_type = "I32" -> as_type(cell, "u64", "i32")
           [] ret_type = "I64" -> as_type(cell, "u64", "i64")
           [] ret_type = "F32" -> as_type(cell, "u64", "u32")
           [] ret_type = "F64" -> as_type(cell, "u64", "u64")]

\* A Store::call that takes the return cell of a void function for no
\* return value.
Store_call_result_lenient(ret_type, ret) ==
  IF ret # <<>> /\ ret_type # "none"
  THEN [res |-> "Ok", trap |-> "none", ret |-> << Value_of(ret_type, ret[1]) >>]
  ELSE [res |-> "Ok", trap |-> "none", ret |-> <<>>]

\* Store::call after `let ret = func.call(self, &mut l0)?`: ret is <<>> for
\* None and <<cell>> for Some(cell).
Store_call_result(ret_type, ret) ==
  IF ret # <<>>
  THEN IF ret_type # "none"
       THEN [res |-> "Ok", trap |-> "none", ret |-> << Value_of(ret_type, ret[1]) >>]
       ELSE [res |-> "RuntimeError", trap |-> "UnexpectedSignature", ret |-> <<>>]
  ELSE [res |-> "Ok", trap |-> "none", ret |-> <<>>]

\* The return cells: the operands of the integer operators as i64, as i32
\* sign-extended and as u32 zero-extended, the shift counts, 2^32 and
\* 2^32 + 1.
ReturnCells ==
  Operands("i64") \cup Counts("i64")
  \cup {as_type(v, "i32", "u64") : v \in Operands("i32")}
  \cup {as_type(v, "u32", "u64") : v \in Operands("i32")}
  \cup {shl_bits(FromNat(1, 64), 32),
        wrapping_add_bits(shl_bits(FromNat(1, 64), 32), FromNat(1, 64))}

ReturnInit == rv = [op |-> "new", ret_type |-> "none", ret |-> <<>>,
                    res |-> "Ok", trap |-> "none", val |-> <<>>]

\* func.call has returned Some(cell) or None to Store::call.
StoreCallReturn ==
  /\ UNCHANGED notReturn
  /\ \E ret_type \in RetTypes, ret \in {<<>>} \cup {<<c>> : c \in ReturnCells} :
       LET r == Store_call_result(ret_type, ret) IN
       rv' = [op |-> "call", ret_type |-> ret_type, ret |-> ret,
              res |-> r.res, trap |-> r.trap, val |-> r.ret]

ReturnNext == StoreCallReturn

-----------------------------------------------------------------------------
(* Claims about the Stack API, checked under SpecStack.                    *)

\* C4: in every reachable state of a Stack the number of cells is at most
\* limit: no operation, reserving a callee's locals included, grows the
\* vector past it.
C4_LenWithinLimit == Len(st.stack) <= st.limit

\* C5: a pop inside a callee frame whose operand stack is empty (len = bp +
\* params + locals) fails and leaves len, bp and every cell as they were; so
\* bp <= len in every reachable state.  (The trap kind is left open: TrapKind
\* has no StackUnderflow, Vec::pop on an empty vector gives StackOverflow.)
C5_PopStopsAtFrameBase ==
  /\ (/\ last.op = "pop_val"
      /\ Len(saved) > 0
      /\ Len(last.pre.stack) = last.pre.bp + last.preN)
       => (~last.ok /\ st = last.pre)
  /\ st.bp <= Len(st.stack)

\* C6: inside a callee frame, get_local / set_local / tee_local with an index
\* at or beyond the frame's params + locals fails, and no cell is read or
\* written.
C6_LocalIndexWithinFrame ==
  (/\ last.op \in {"get_local", "set_local", "tee_local"}
   /\ Len(saved) > 0
   /\ last.arg >= last.preN)
    => (~last.ok /\ st = last.pre)

\* C24: push_frame(n) succeeds if and only if the current frame holds at
\* least n cells (len - bp >= n).  On success the new bp is len - n, the value
\* returned is the bp from before, and len and the cells are unchanged; on
\* failure a trap is returned and bp, len and the cells are unchanged.
C24_PushFrame ==
  last.op = "push_frame"
    => /\ last.ok <=> (Len(last.pre.stack) - last.pre.bp >= last.arg)
       /\ last.ok => /\ st.bp = Len(last.pre.stack) - last.arg
                     /\ last.val = last.pre.bp
                     /\ st.stack = last.pre.stack
       /\ ~last.ok => /\ last.trap = "StackOverflow"
                      /\ st = last.pre

\* C24 happens: inside a frame whose bp is 1, push_frame(1) has taken the one
\* cell of the frame as the parameter of a nested frame.
C24_Witness ==
  /\ last.op = "push_frame" /\ last.ok
  /\ last.arg = 1
  /\ last.pre.bp = 1
  /\ Len(saved) = 2

\* C25: pop_frame(prev), with prev the value the frame's push_frame(n)
\* returned, puts bp back to what it was before that push_frame and leaves
\* len at the length before the push_frame minus n, every cell below it
\* being what it was then, whatever was pushed, popped or reserved inside
\* the frame (frames nested inside have been closed in LIFO order).
C25_PopFrameRestores ==
  last.op = "pop_frame"
    => LET frame == last.frame[1] IN
       /\ st.bp = frame.bp
       /\ st.stack = frame.below

\* C26: push_params(values) with len + |values| <= limit appends the values
\* in order and returns the len from before; when it would exceed limit it
\* fails with StackOverflow and has pushed none of them.
C26_PushParams ==
  last.op = "push_params"
    => IF Len(last.pre.stack) + Len(last.params) <= last.pre.limit
       THEN /\ last.ok
            /\ last.val = Len(last.pre.stack)
            /\ st.stack = last.pre.stack \o last.params
            /\ st.bp = last.pre.bp
       ELSE /\ ~last.ok /\ last.trap = "StackOverflow"
            /\ st = last.pre

\* C26 happens: two different values have been pushed by one push_params,
\* and they lie on the stack in the order given.
C26_Witness ==
  /\ last.op = "push_params" /\ last.ok
  /\ last.params = <<1, 0>>
  /\ st.stack = <<1, 0>>

-----------------------------------------------------------------------------
(* Claims about the registry and the facade, checked under SpecVM.         *)

\* The functions of the module registered under name, as the addresses its
\* ModuleInstance holds resolve them in the function table.
ModuleInst(name) == state.module_instances[state.modules[name] + 1]

\* C9: the registry is append-only across loads: every function address of a
\* registered module is valid and refers to the function of that module it
\* was given for, its exports resolve to its own functions, and two modules
\* never share a function address.
C9_RegistryAppendOnly ==
  \A name \in DOMAIN state.modules :
    /\ \A k \in 1..Len(ModuleInst(name).funcs) :
         LET f == get_function(state, ModuleInst(name).funcs[k]) IN
         f.ok /\ f.func = [file |-> loadedFrom[name], idx |-> k - 1]
    /\ \A field \in DOMAIN ModuleInst(name).exports :
         LET a == get_exported(state, name, field) IN
         /\ a.ok
         /\ get_function(state, a.addr).ok
         /\ get_function(state, a.addr).func =
              [file |-> loadedFrom[name], idx |-> ModuleInst(name).exports[field]]
    /\ \A other \in DOMAIN state.modules \ {name} :
         {ModuleInst(name).funcs[k] : k \in 1..Len(ModuleInst(name).funcs)}
           \cap {ModuleInst(other).funcs[k] : k \in 1..Len(ModuleInst(other).funcs)} = {}

C14_IfElseCompiles ==
  (/\ vmLast.op = "load_file"
   /\ vmLast.file = "P"
   /\ vmLast.preLive = {}
   /\ vmLast.name \notin DOMAIN vmLast.preState.modules)
    => /\ vmLast.res = "none"
       /\ vmLast.name \in DOMAIN state.modules
       /\ get_exported(state, vmLast.name, "isnz").ok

\* C20: a load under a name that is already registered (into a registry no
\* instance shares, so that the load reaches State::load_file) fails with
\* ModuleExists and leaves the function table, the module instances and the
\* map of module names unchanged: the module registered before resolves
\* each of its exports to the same address and the same function as before.
C20_ModuleExistsLeavesRegistry ==
  (/\ vmLast.op = "load_file"
   /\ vmLast.preLive = {}
   /\ vmLast.name \in DOMAIN vmLast.preState.modules)
    => /\ vmLast.res = "ModuleExists"
       /\ state.funcs = vmLast.preState.funcs
       /\ state.module_instances = vmLast.preState.module_instances
       /\ state.modules = vmLast.preState.modules
       /\ \A field \in DOMAIN vmLast.preState.module_instances[
                           vmLast.preState.modules[vmLast.name] + 1].exports :
            /\ get_exported(state, vmLast.name, field)
                 = get_exported(vmLast.preState, vmLast.name, field)
            /\ get_function(state, get_exported(state, vmLast.name, field).addr)
                 = get_function(vmLast.preState,
                                get_exported(vmLast.preState, vmLast.name, field).addr)

\* C20 happens: a module with exports is registered, no instance is alive,
\* and a load of another file under its name has failed with ModuleExists.
C20_Witness ==
  /\ vmLast.op = "load_file"
  /\ vmLast.preLive = {}
  /\ vmLast.name \in DOMAIN vmLast.preState.modules
  /\ loadedFrom[vmLast.name] # vmLast.file
  /\ DOMAIN ModuleInst(vmLast.name).exports # {}
  /\ vmLast.res = "ModuleExists"

\* The function indices a file exports under a name.
ExportedIdx(file, field) ==
  {from_file(file).exports[k][2] :
     k \in {j \in 1..Len(from_file(file).exports) : from_file(file).exports[j][1] = field}}

\* C21: get_exported(module, name) answers ModuleNotFound when no load has
\* registered the module name, FuncNotFound when the module is registered and
\* the file it was loaded from exports nothing under that name, and otherwise
\* the address the load gave that export (the export's function index, since
\* the load numbers the module's addresses from 0); the lookup leaves the
\* registry as it was.
C21_GetExported ==
  vmLast.op = "get_exported"
    => /\ state = vmLast.preState
       /\ IF vmLast.name \notin DOMAIN loadedFrom
          THEN vmLast.res = "ModuleNotFound"
          ELSE IF ExportedIdx(loadedFrom[vmLast.name], vmLast.file) = {}
          THEN vmLast.res = "FuncNotFound"
          ELSE /\ vmLast.res = "none"
               /\ ExportedIdx(loadedFrom[vmLast.name], vmLast.file) = {vmLast.addr}

\* C21 happens: with two modules registered, the second export of one of them
\* is looked up and found at address 1.
C21_Witness ==
  /\ vmLast.op = "get_exported"
  /\ DOMAIN loadedFrom = ModuleNames
  /\ vmLast.file = "g"
  /\ vmLast.res = "none"
  /\ vmLast.addr = 1

\* A load that got past the checks of the module name and of the shared
\* registry and then failed: a function did not compile, or an export could
\* not be published.
FailedPartWay ==
  /\ vmLast.op = "load_file"
  /\ vmLast.res \notin {"none", "ModuleExists", "CannotModifySharedVM"}

\* C39: when a load fails part-way, the registry's function table, module
\* instances and module-name map are exactly as they were before the load,
\* and every export registered before resolves to the function it resolved
\* to before.
C39_FailedLoadKeepsRegistry ==
  FailedPartWay
    => /\ state.funcs = vmLast.preState.funcs
       /\ state.module_instances = vmLast.preState.module_instances
       /\ state.modules = vmLast.preState.modules
       /\ \A name \in DOMAIN vmLast.preState.modules : \A field \in LookupNames :
            LET before == get_exported(vmLast.preState, name, field)
                after == get_exported(state, name, field)
            IN /\ after = before
               /\ before.ok => get_function(state, after.addr)
                                  = get_function(vmLast.preState, before.addr)

-----------------------------------------------------------------------------
(* Claims about calls through the instance, checked under SpecThreaded.    *)

\* The function a call went to.
Callee == ThreadedFuncs[callLast.func_addr + 1]

\* C1: after a call through VMInstance::call / Store::call that returned Ok
\* and was given as many params as the function's arity, the store's stack
\* is as long as it was at entry to call (the return value is handed back by
\* value, none is left on the stack), whatever calls came before.
C1_StackBalanced ==
  (/\ callLast.op = "call"
   /\ callLast.res = "Ok"
   /\ Len(callLast.params) = Callee.param_count)
    => Len(store.stack) = callLast.preLen

\* A successful call of twice (two nested calls, a return value), entered
\* with cells of an earlier trapped call still on the stack.
C1_Witness ==
  /\ callLast.op = "call"
  /\ callLast.res = "Ok"
  /\ callLast.func_addr = 4
  /\ Len(callLast.params) = Callee.param_count
  /\ callLast.ret # <<>>
  /\ callLast.preLen > 0

\* C8: VMInstance::call on an exported function of arity 0 with an empty
\* params list runs the function and returns its result.
C8_ArityZeroCall ==
  (/\ callLast.op = "call"
   /\ Callee.param_count = 0
   /\ callLast.params = <<>>)
    => (/\ callLast.res = "Ok"
        /\ callLast.ret = << [type |-> "I64", v |-> 1] >>)

\* C38: when a call fails after its params were pushed - the function
\* address is not in the registry, or a trap is raised inside the function at
\* any call depth - the store's stack length and bp are back at their values
\* from the entry to call.
C38_FailedCallRestores ==
  (/\ \/ callLast.op = "store"
      \/ callLast.op = "call" /\ Len(callLast.params) = Callee.param_count
   /\ callLast.res \notin {"Ok", "panic"})
    => /\ Len(store.stack) = callLast.preLen
       /\ store.bp = callLast.preBp

-----------------------------------------------------------------------------
(* Claims about the closure back-end, checked under SpecClosure.           *)

\* The block a pending Branch is aimed at: d levels out from the block whose
\* thunk returned it.
BrTarget(b) == Len(b.k) - b.d

\* The Branch stays inside the function: the d + 1 innermost activations are
\* Block::run, and a target that is left has a Block::run as its parent.
BrInside(b) ==
  /\ b.set
  /\ BrTarget(b) >= 1
  /\ \A j \in BrTarget(b)..Len(b.k) : b.k[j].f = "block"
  /\ \/ b.k[BrTarget(b)].blk.kind = "Loop"
     \/ BrTarget(b) > 1 /\ b.k[BrTarget(b) - 1].f = "block"

\* Where the Branch has to end up: a Loop at its first thunk, with the blocks
\* inside it gone; otherwise the parent of the target at the thunk after the
\* target.
BrResume(b) ==
  LET t == BrTarget(b) IN
  IF b.k[t].blk.kind = "Loop"
  THEN [j \in 1..t |-> IF j = t THEN [b.k[j] EXCEPT !.i = 1] ELSE b.k[j]]
  ELSE [j \in 1..(t - 1) |-> IF j = t - 1 THEN [b.k[j] EXCEPT !.i = @ + 1] ELSE b.k[j]]

\* C2: a `br d` (or a taken `br_if d`) acts on the block d levels out.  Until
\* a thunk runs again, the blocks inside the target only hand the Branch on,
\* the j-th of them as Branch(d - j), and run no thunk of their own; the
\* next thunk that runs is the first of the target Loop, or, for a Block, If
\* or Else, the one after the target in its parent, which got End.
C2_BranchActsOnDthBlock ==
  BrInside(brAt) =>
    LET left == Len(brAt.k) - Len(cm.k) IN
    /\ cm.mode \in {"action", "block"}
    /\ cm.mode = "block" => cm.k = BrResume(brAt)
    /\ cm.mode = "action" =>
         /\ left \in 0..(brAt.d + 1)
         /\ cm.k = SubSeq(brAt.k, 1, Len(cm.k))
         /\ left <= brAt.d => cm.act = Action_Branch(brAt.d - left)
         /\ left = brAt.d + 1 =>
              cm.act = Action_End /\ brAt.k[BrTarget(brAt)].blk.kind # "Loop"

\* C2 witness: in s5 the `br 1` of the inner block has left both blocks and
\* the function block is about to run the thunk after the outer block.
C2_Witness ==
  /\ BrInside(brAt)
  /\ brAt.d = 1
  /\ brAt.k[BrTarget(brAt)].blk.kind = "Block"
  /\ cm.func_addr = 6
  /\ cm.mode = "block"
  /\ cm.k = BrResume(brAt)
  /\ Len(cm.k) = 2 /\ cm.k[2].i = 2

\* C12: a trap aborts the call where it is raised.  From the step that
\* raises it, every step only returns the same Err one level up, out of the
\* closure, thunk, Block::run or Function::call that was running: no thunk
\* runs, no local and no stack cell changes, the kind stays the same, and
\* the caller of the instance gets RuntimeError with that kind.
C12_TrapAborts ==
  [][cm.mode = "trap" =>
       /\ cm'.s = cm.s
       /\ \/ /\ cm'.mode = "trap"
             /\ cm'.trap = cm.trap /\ cm'.l0 = cm.l0
             /\ cm.k # <<>> /\ cm'.k = KPop(cm)
          \/ /\ cm'.mode = "idle"
             /\ cm.k = <<>>
             /\ cLast'.res = "RuntimeError" /\ cLast'.trap = cm.trap
             /\ cLast'.ret = <<>>]_vars

\* C12 witness: StackOverflow raised by a call inside a loop inside a block
\* of trapIn, itself called by outer, is on its way up through the loop.
C12_Witness ==
  /\ cm.mode = "trap"
  /\ cm.trap = "StackOverflow"
  /\ cm.func_addr = 11
  /\ Len(cm.k) >= 2
  /\ KTop(cm).f = "block" /\ KTop(cm).blk.kind = "Loop"
  /\ \E j \in 2..Len(cm.k) : cm.k[j].f = "call"

\* C3: a call binds the arguments to the callee's locals in push order:
\* callFirst(a, b), whose body is first(a, b), returns a, and callId(a, b),
\* whose body is id(b), returns b.
C3_CallBindsInPushOrder ==
  (/\ cLast.op = "call"
   /\ cLast.func_addr \in {3, 5}
   /\ Len(cLast.params) = 2
   /\ cLast.pre.stack = <<>>)
    => /\ cLast.res = "Ok"
       /\ cLast.ret = << [type |-> "I64",
                          v |-> cLast.params[IF cLast.func_addr = 3 THEN 1 ELSE 2].v] >>

\* The functions of "C" whose bodies the threaded back-end of this model
\* translates: no Block, Loop, If, Br or BrIf.
BlockFree(a) ==
  \A i \in 1..Len(ClosureFuncs[a + 1].code) :
    ClosureFuncs[a + 1].code[i].op \notin {"Block", "Loop", "If", "Br", "BrIf"}

StraightLine ==
  {a \in 0..(Len(ClosureFuncs) - 1) :
     /\ BlockFree(a)
     /\ \A i \in 1..Len(ClosureFuncs[a + 1].code) :
          ClosureFuncs[a + 1].code[i].op = "Call"
            => BlockFree(ClosureFuncs[a + 1].code[i].arg)}

\* C7: a call executed with local 0 in the l0 cell ends as the same call
\* executed by the threaded interpreter, which keeps local 0 in the frame
\* slot bp + 0 (on a stack with room for the operands it pushes): the same
\* return value or the same trap, also when the body writes local 0 and
\* reads it again and when it calls another function.
C7_L0MatchesFrameSlot ==
  (/\ cLast.op = "call"
   /\ cLast.func_addr \in StraightLine
   /\ Len(cLast.params) = ClosureFuncs[cLast.func_addr + 1].param_count
   /\ cLast.pre.stack = <<>>)
    => LET r == Store_call(ClosureState, new_with_limit(2 * StoreLimit),
                           cLast.func_addr, cLast.params)
       IN cLast.res = r.res /\ cLast.trap = r.trap /\ cLast.ret = r.ret

\* The body of function a holds no call.
CallFree(a) ==
  \A i \in 1..Len(ClosureFuncs[a + 1].code) : ClosureFuncs[a + 1].code[i].op # "Call"

\* The callees of the `call` opcodes of function a, in program order.
CallsReached(a) ==
  LET calls == SelectSeq(ClosureFuncs[a + 1].code, LAMBDA o : o.op = "Call")
  IN [i \in 1..Len(calls) |-> calls[i].arg]

\* C27: every `call` opcode reached in program order invokes its callee
\* exactly once, whether or not its result is consumed, a void callee
\* included: a call of a function without blocks whose callees call nothing
\* has, when it returns, invoked the callees of its `call` opcodes, each
\* once and in program order.
C27_CallsInvokedInOrder ==
  (/\ cLast.op = "call"
   /\ cLast.func_addr \in StraightLine
   /\ \A i \in 1..Len(CallsReached(cLast.func_addr)) :
        CallFree(CallsReached(cLast.func_addr)[i])
   /\ Len(cLast.params) = ClosureFuncs[cLast.func_addr + 1].param_count
   /\ cLast.res = "Ok")
    => cLast.invoked = CallsReached(cLast.func_addr)

\* C28: the value `get_local i` delivers to its consumer is the value local
\* i held when the get_local was reached, also when the local is written
\* before the consumer runs: a function without blocks and calls returns
\* what the threaded interpreter, which pushes the value at the get_local,
\* returns for it.
C28_GetLocalValueWhenReached ==
  (/\ cLast.op = "call"
   /\ cLast.func_addr \in StraightLine
   /\ CallFree(cLast.func_addr)
   /\ Len(cLast.params) = ClosureFuncs[cLast.func_addr + 1].param_count
   /\ cLast.pre.stack = <<>>)
    => LET r == Store_call(ClosureState, new_with_limit(2 * StoreLimit),
                           cLast.func_addr, cLast.params)
       IN cLast.res = r.res /\ cLast.ret = r.ret

\* C29: a Return(v) a thunk has yielded goes up at once through every
\* enclosing Block::run, Loops included: each step hands the same Return(v)
\* to the next block out and nothing else changes (no thunk runs, no local
\* and no cell is written), until the function's closure yields exactly v,
\* to the Call closure that invoked the function or, typed, to the caller of
\* Store::call.
C29_ReturnPropagates ==
  [][(cm.mode = "action" /\ cm.act.a = "Return") =>
       \/ /\ KTop(cm).f = "block"
          /\ cm'.mode = "action" /\ cm'.act = cm.act
          /\ cm'.k = KPop(cm)
          /\ cm'.s = cm.s /\ cm'.l0 = cm.l0
       \/ /\ KTop(cm).f = "call" /\ Len(cm.k) > 1
          /\ cm'.mode = "value" /\ cm'.k = KPop(cm)
          /\ cm'.val = (IF cm.act.ret # <<>> THEN cm.act.ret[1] ELSE 0)
       \/ /\ KTop(cm).f = "call" /\ Len(cm.k) = 1
          /\ cm'.mode = "idle"
          /\ cLast'.res = "Ok"
          /\ cLast'.ret = (IF cm.act.ret = <<>> THEN <<>>
                           ELSE << [type |-> ClosureFuncs[cm.func_addr + 1].ret_type,
                                    v |-> cm.act.ret[1]] >>)]_vars

\* C29 happens: in retIn the Return of the first thunk of the loop is in the
\* hands of the Loop's Block::run, two blocks inside the function block, with
\* thunks left to run in each of them.
C29_Witness ==
  /\ cm.mode = "action" /\ cm.act.a = "Return"
  /\ cm.func_addr = 15
  /\ Len(cm.k) = 4
  /\ KTop(cm).f = "block" /\ KTop(cm).blk.kind = "Loop"
  /\ KTop(cm).i < Len(KTop(cm).blk.eval)

\* A Block::run of a Loop is the innermost activation.
InLoop(m) == m.k # <<>> /\ KTop(m).f = "block" /\ KTop(m).blk.kind = "Loop"

\* C30: a Loop runs its thunks in order from the first, one pass on entry and
\* one more for each Branch(0) that reaches it: an End moves it to the next
\* thunk, a Branch(0) back to the first, and past the last thunk it returns
\* End; within a pass no thunk runs twice.
C30_LoopPasses ==
  [][/\ (InLoop(cm') /\ Len(cm'.k) = Len(cm.k) + 1)
          => (cm'.mode = "block" /\ KTop(cm').i = 1)
     /\ (InLoop(cm) /\ cm.mode = "block")
          => IF KTop(cm).i > Len(KTop(cm).blk.eval)
             THEN cm'.mode = "action" /\ cm'.act = Action_End /\ cm'.k = KPop(cm)
             ELSE /\ Len(cm'.k) >= Len(cm.k)
                  /\ SubSeq(cm'.k, 1, Len(cm.k)) = cm.k
                  /\ cm'.mode \in {"block", "eval", "action"}
     /\ (InLoop(cm) /\ cm.mode = "action")
          => CASE cm.act.a = "End" ->
                    /\ cm'.mode = "block"
                    /\ cm'.k = [cm.k EXCEPT ![Len(cm.k)].i = @ + 1]
               [] cm.act.a = "Branch" /\ cm.act.d = 0 ->
                    /\ cm'.mode = "block"
                    /\ cm'.k = [cm.k EXCEPT ![Len(cm.k)].i = 1]
               [] cm.act.a = "Branch" /\ cm.act.d > 0 ->
                    /\ cm'.mode = "action" /\ cm'.k = KPop(cm)
                    /\ cm'.act = Action_Branch(cm.act.d - 1)
               [] cm.act.a = "Return" ->
                    cm'.mode = "action" /\ cm'.k = KPop(cm) /\ cm'.act = cm.act]_vars

\* C30 happens: in again(0) the loop has made a first pass that ended in a
\* Branch(0) and a second pass in which every thunk yielded End, and is past
\* its last thunk.
C30_Witness ==
  /\ InLoop(cm) /\ cm.mode = "block"
  /\ cm.func_addr = 16
  /\ cm.params = << [type |-> "I64", v |-> 0] >>
  /\ cm.l0 = 0
  /\ KTop(cm).i = Len(KTop(cm).blk.eval) + 1

SavedL0(k) == SelectSeq(k, LAMBDA e : e.f = "call")

\* C40: a callee's writes to its own local 0 never reach the caller's: in
\* every step inside a call, the l0 cells of the callers that stay in the
\* chain are unchanged; a function entered by a Call leaves the caller's l0
\* what it was at the Call; and when a function returns, the function that
\* goes on has the l0 it had at its Call.
C40_CallerL0Kept ==
  [][(cm.mode \notin {"idle", "panic"} /\ cm'.mode \notin {"idle", "panic"})
       => LET before == SavedL0(cm.k)
              after == SavedL0(cm'.k)
          IN /\ \A i \in 1..Len(before) : i <= Len(after) => after[i].l0 = before[i].l0
             /\ Len(after) > Len(before) => after[Len(after)].l0 = cm.l0
             /\ (Len(after) < Len(before) /\ cm'.mode # "trap")
                  => cm'.l0 = before[Len(before)].l0]_vars

\* C40 happens: keepL0(a) has called incr with its local 0 as the argument,
\* incr has set its own local 0 to a + 1 and returned it, and the caller has
\* then read a from its local 0: the call returns (a + 1) - a.
C40_Witness ==
  /\ cLast.op = "call" /\ cLast.func_addr = 17 /\ cLast.res = "Ok"
  /\ cLast.invoked = <<4>>
  /\ cLast.params = << [type |-> "I64", v |-> 1] >>
  /\ cLast.ret = << [type |-> "I64", v |-> 1] >>

-----------------------------------------------------------------------------
(* Claims about instances of one VM, checked under SpecInstances.          *)

\* The calls of a history made one after the other on a Store of their own.
RECURSIVE Alone(_, _, _)
Alone(registry, s, calls) ==
  IF calls = <<>> THEN [s |-> s, hist |-> <<>>]
  ELSE LET r == VMInstance_call(registry, s, "m", calls[1][1], calls[1][2])
           rest == Alone(registry, r.s, Tail(calls))
       IN [s |-> rest.s,
           hist |-> <<[call |-> calls[1], res |-> r.res, trap |-> r.trap,
                       ret |-> r.ret]>> \o rest.hist]

CallsOf(v) == [n \in 1..Len(v.hist) |-> v.hist[n].call]

\* C11: instances are independent.  Whatever the other instance has done or
\* is in the middle of, an instance that is between two calls has the
\* results and the stack its calls produce when they run alone on a fresh
\* instance, and the registry behind the Arc is the one that was loaded.
C11_InstancesIndependent ==
  /\ shared = ThreadedState
  /\ \A i \in Instances :
       ~vmi[i].busy =>
         LET alone == Alone(ThreadedState, new_with_limit(StoreLimit), CallsOf(vmi[i])) IN
         /\ vmi[i].hist = alone.hist
         /\ vmi[i].s = alone.s

\* C11 witness: both instances have finished two calls, with different
\* results and different stacks, one of them left with operands of a trap.
C11_Witness ==
  /\ \A i \in Instances : ~vmi[i].busy /\ Len(vmi[i].hist) = MaxCalls
  /\ vmi[1].hist # vmi[2].hist
  /\ vmi[1].s # vmi[2].s
  /\ vmi[1].hist[1].res = "RuntimeError" /\ vmi[1].hist[1].trap = "Unreachable"
  /\ vmi[2].hist[2].res = "Ok"
  /\ Len(vmi[1].s.stack) > 0

-----------------------------------------------------------------------------
(* Claims about self-recursive functions, checked under SpecRecursion.     *)

\* C13: a function that calls itself unconditionally ends in the trap
\* StackOverflow after a number of nested calls the stack limit bounds
\* (every nested call takes at least one cell of a stack of StoreLimit
\* cells), whatever its params and locals: no call nests deeper than the
\* limit allows, and every call that has returned has returned
\* RuntimeError(StackOverflow).
C13_RecursionTrapsStackOverflow ==
  /\ rec.busy => Len(rec.m.frames) <= StoreLimit + 2
  /\ \A n \in 1..Len(rec.hist) :
       rec.hist[n].res = "RuntimeError" /\ rec.hist[n].trap = "StackOverflow"

-----------------------------------------------------------------------------
(* Claims about the integer operators, checked under SpecNumeric.          *)

\* The value n of -(2^31 - 1) .. 2^31 - 1 at width w, in two's complement.
FromInt(n, w) == IF n < 0 THEN wrapping_neg(FromNat(0 - n, w)) ELSE FromNat(n, w)

\* The operands whose sums, differences and products are far inside the
\* range of both types.
SmallInts == {0 - 7, 0 - 1, 0, 1, 2, 7}

\* q is the quotient of the signed a by the signed b # 0 rounded towards
\* zero: the remainder a - q * b is smaller than b in magnitude and is zero
\* or has the sign of a, and q is no larger than a in magnitude.
TruncatedQuotient(a, b, q) ==
  LET r == wrapping_sub(a, wrapping_mul(q, b)) IN
  /\ ult(unsigned_abs(r), unsigned_abs(b))
  /\ IsZero(r) \/ r[Len(r)] = a[Len(a)]
  /\ ~ult(unsigned_abs(a), unsigned_abs(q))

\* C15: for both widths div_s and rem_s trap DivisionByZero whenever the
\* divisor is 0, whatever the dividend; div_s(INT_MIN, -1) traps
\* InvalidConversionToInt; for every other pair of operands div_s does not
\* trap and returns the signed quotient rounded towards zero.
C15_SignedDivisionTraps ==
  num.op \in {"div_s", "rem_s"} =>
    /\ IsZero(num.right) => num.trap = "DivisionByZero"
    /\ (/\ num.op = "div_s"
        /\ num.left = INT_MIN(Width(num.type))
        /\ num.right = MinusOne(Width(num.type)))
         => num.trap = "InvalidConversionToInt"
    /\ (/\ num.op = "div_s"
        /\ ~IsZero(num.right)
        /\ ~(/\ num.left = INT_MIN(Width(num.type))
             /\ num.right = MinusOne(Width(num.type))))
         => /\ num.trap = "none"
            /\ TruncatedQuotient(num.left, num.right, num.res)
            /\ \A a \in SmallInts, b \in SmallInts \ {0} :
                 (/\ num.left = FromInt(a, Width(num.type))
                  /\ num.right = FromInt(b, Width(num.type)))
                   => num.res = FromInt(IF (a < 0) = (b < 0)
                                        THEN (IF a < 0 THEN 0 - a ELSE a)
                                               \div (IF b < 0 THEN 0 - b ELSE b)
                                        ELSE 0 - ((IF a < 0 THEN 0 - a ELSE a)
                                               \div (IF b < 0 THEN 0 - b ELSE b)),
                                        Width(num.type))

\* C15 happens: i64 div_s(INT_MIN, -1) has trapped InvalidConversionToInt.
C15_Witness ==
  /\ num.op = "div_s" /\ num.type = "i64"
  /\ num.left = INT_MIN(64) /\ num.right = MinusOne(64)
  /\ num.trap = "InvalidConversionToInt"

\* C16: div_u and rem_u take both operands as unsigned numbers of the
\* operator's width and trap only when the divisor is zero: the result q of
\* div_u leaves a remainder a - q * b below b, that of rem_u is below b;
\* div_u of the bit patterns of INT_MIN and -1 is 0, without a trap.
C16_UnsignedDivision ==
  num.op \in {"div_u", "rem_u"} =>
    /\ (num.trap # "none") <=> IsZero(num.right)
    /\ IsZero(num.right) => num.trap = "DivisionByZero"
    /\ (num.op = "div_u" /\ num.trap = "none")
         => /\ ult(wrapping_sub(num.left, wrapping_mul(num.res, num.right)), num.right)
            /\ ~ult(num.left, num.res)
    /\ (num.op = "rem_u" /\ num.trap = "none") => ult(num.res, num.right)
    /\ (/\ num.op = "div_u"
        /\ num.left = INT_MIN(Width(num.type))
        /\ num.right = MinusOne(Width(num.type)))
         => num.trap = "none" /\ IsZero(num.res)

\* C17: the shift operators move the left operand by the count modulo the
\* width of the operator, 32 for i32 and 64 for i64: shl with zeros
\* entering, shr_s with copies of the sign, shr_u with zeros.
C17_ShiftCountModWidth ==
  num.op \in ShiftOps =>
    /\ num.trap = "none"
    /\ num.res = CASE num.op = "shl" ->
                        shl_bits(num.left, ToNat(num.right) % Width(num.type))
                   [] num.op = "shr_s" ->
                        sar_bits(num.left, ToNat(num.right) % Width(num.type))
                   [] num.op = "shr_u" ->
                        shr_bits(num.left, ToNat(num.right) % Width(num.type))

\* C35: a binary integer operator takes the cell below the top as its left
\* operand and the top cell as its right operand: sub gives left - right, and
\* rotl and rotr rotate the cell below the top by the count on top.
C35_OperandOrder ==
  /\ num.op = "sub" => num.res = wrapping_sub(num.left, num.right)
  /\ num.op = "rotl"
       => num.res = rotate_left(num.left, as_type(num.right, num.type, "u32"))
  /\ num.op = "rotr"
       => num.res = rotate_right(num.left, as_type(num.right, num.type, "u32"))

\* C36: shr_u is a logical right shift: of a value whose top bit is set it
\* gives, for every count that is not 0 modulo the width, a result whose top
\* bit is clear; shr_s of such a value gives a result whose top bit is set.
C36_ShrULogical ==
  (/\ num.op \in {"shr_u", "shr_s"}
   /\ num.left[Width(num.type)] = 1
   /\ ToNat(num.right) % Width(num.type) # 0)
    => /\ num.trap = "none"
       /\ num.op = "shr_u" => num.res[Width(num.type)] = 0
       /\ num.op = "shr_s" => num.res[Width(num.type)] = 1

\* C18: add, sub and mul of both widths never trap and give the exact result
\* modulo 2^width in two's complement: exactly a + b, a - b, a * b on small
\* operands, add(INT_MAX, 1) = INT_MIN, sub(INT_MIN, 1) = INT_MAX,
\* mul(INT_MAX, 2) = -2, sub(x, x) = 0, mul(x, 1) = x; and(x, x) = x,
\* or(x, 0) = x and xor(x, x) = 0.
C18_WrappingArithmetic ==
  num.op \in BinOps =>
    /\ num.trap = "none"
    /\ Len(num.stack) = 1
    /\ \A a \in SmallInts, b \in SmallInts :
         (/\ num.left = FromInt(a, Width(num.type))
          /\ num.right = FromInt(b, Width(num.type)))
           => /\ num.op = "add" => num.res = FromInt(a + b, Width(num.type))
              /\ num.op = "sub" => num.res = FromInt(a - b, Width(num.type))
              /\ num.op = "mul" => num.res = FromInt(a * b, Width(num.type))
    /\ (/\ num.op = "add" /\ num.left = INT_MAX(Width(num.type))
        /\ num.right = FromNat(1, Width(num.type)))
         => num.res = INT_MIN(Width(num.type))
    /\ (/\ num.op = "sub" /\ num.left = INT_MIN(Width(num.type))
        /\ num.right = FromNat(1, Width(num.type)))
         => num.res = INT_MAX(Width(num.type))
    /\ (/\ num.op = "mul" /\ num.left = INT_MAX(Width(num.type))
        /\ num.right = FromNat(2, Width(num.type)))
         => num.res = FromInt(0 - 2, Width(num.type))
    /\ (num.op = "sub" /\ num.left = num.right) => IsZero(num.res)
    /\ (num.op = "mul" /\ num.right = FromNat(1, Width(num.type)))
         => num.res = num.left
    /\ (num.op = "and" /\ num.left = num.right) => num.res = num.left
    /\ (num.op = "or" /\ IsZero(num.right)) => num.res = num.left
    /\ (num.op = "xor" /\ num.left = num.right) => IsZero(num.res)

\* C18 happens: i32 add(INT_MAX, 1) has returned INT_MIN.
C18_Witness ==
  /\ num.op = "add" /\ num.type = "i32"
  /\ num.left = INT_MAX(32) /\ num.right = FromNat(1, 32)
  /\ num.trap = "none" /\ num.res = INT_MIN(32)

-----------------------------------------------------------------------------
(* Claims about the result of a call, checked under SpecReturn.            *)

\* C19: a call returns Some(value), the value tagged with the declared
\* return type of the function and holding the return cell as that type,
\* when the function yields a return cell; it returns None when the function
\* yields none; and it fails with RuntimeError(UnexpectedSignature) when the
\* function yields a return cell although it is declared void.
C19_ReturnValueTyped ==
  rv.op = "call" =>
    /\ (rv.ret # <<>> /\ rv.ret_type # "none")
         => /\ rv.res = "Ok" /\ Len(rv.val) = 1
            /\ rv.val[1].type = rv.ret_type
            /\ Len(rv.val[1].v) = (IF rv.ret_type \in {"I32", "F32"} THEN 32 ELSE 64)
            /\ \A i \in 1..Len(rv.val[1].v) : rv.val[1].v[i] = rv.ret[1][i]
    /\ rv.ret = <<>> => (rv.res = "Ok" /\ rv.val = <<>>)
    /\ (rv.ret # <<>> /\ rv.ret_type = "none")
         => (rv.res = "RuntimeError" /\ rv.trap = "UnexpectedSignature")

\* C19 happens: a function declared i32 has yielded the cell 2^32 + 1 and
\* the call has returned Some(I32(1)).
C19_Witness ==
  /\ rv.op = "call" /\ rv.ret_type = "I32"
  /\ rv.ret = << wrapping_add_bits(shl_bits(FromNat(1, 64), 32), FromNat(1, 64)) >>
  /\ rv.res = "Ok"
  /\ rv.val = << [type |-> "I32", v |-> FromNat(1, 32)] >>

-----------------------------------------------------------------------------
(* The translation to the threaded ISA, src/src/isa.rs: the Sink and the   *)
(* block arms of compile_function, driven one opcode at a time over every  *)
(* well-nested body of at most MaxOps opcodes.                             *)

\* The longest function body translated, in opcodes.
MaxOps == 6
\* The deepest nesting of blocks in a body, the function block included.
MaxBlocks == 3

\* Stands for PC::max_value() (u32::MAX), the placeholder ref_label hands
\* out: like it, a value no PC of a body of MaxOps opcodes reaches.
PC_max_value == 2147483647

\* Label::default(): pc is None (<<>>) or Some(pc) (<<pc>>).
Label_default == [pc |-> <<>>, reloc |-> <<>>]

\* isa::Block, with the labels its kind does not have left at 0.
Block_Block(end_label) == [kind |-> "Block", end_label |-> end_label, if_not |-> 0, head |-> 0]
Block_Loop(head) == [kind |-> "Loop", end_label |-> 0, if_not |-> 0, head |-> head]
Block_If(end_label, if_not) ==
  [kind |-> "If", end_label |-> end_label, if_not |-> if_not, head |-> 0]
Block_Else(end_label) == [kind |-> "Else", end_label |-> end_label, if_not |-> 0, head |-> 0]

\* A br_destination that hands out the end label of every kind of block.
Block_br_destination_end(block) == block.end_label

\* Block::br_destination
Block_br_destination(block) == IF block.kind = "Loop" THEN block.head ELSE block.end_label

\* Sink::new
Sink_new == [code |-> <<>>, blocks |-> <<>>, labels |-> <<>>, panic |-> FALSE]

\* Sink::pc
Sink_pc(s) == Len(s.code)

\* Sink::push_block
push_block(s, block) == [s EXCEPT !.blocks = Append(@, block)]

\* Sink::ref_block: the block `depth` levels out, or ValidationError.
ref_block(s, depth) ==
  IF Len(s.blocks) >= 1 /\ Len(s.blocks) - 1 >= depth
  THEN [ok |-> TRUE, block |-> s.blocks[Len(s.blocks) - depth]]
  ELSE [ok |-> FALSE, block |-> Block_Block(0)]

\* Sink::pop_block
pop_block(s) ==
  IF Len(s.blocks) = 0 THEN [ok |-> FALSE, block |-> Block_Block(0), s |-> s]
  ELSE [ok |-> TRUE, block |-> s.blocks[Len(s.blocks)],
        s |-> [s EXCEPT !.blocks = SubSeq(@, 1, Len(@) - 1)]]

\* Sink::is_stack_empty
is_stack_empty(s) == Len(s.blocks) = 0

\* Sink::br_destination
br_destination(s, depth) ==
  LET r == ref_block(s, depth) IN [ok |-> r.ok, label |-> Block_br_destination(r.block)]

\* Sink::new_label: the new LabelID and the sink holding it.
new_label(s) == [id |-> Len(s.labels), s |-> [s EXCEPT !.labels = Append(@, Label_default)]]

\* Sink::ref_label: the label's PC if it is resolved; otherwise the PC of the
\* instruction about to be emitted is noted for patching and the placeholder
\* is returned.
ref_label(s, id) ==
  LET label == s.labels[id + 1] IN
  IF label.pc # <<>> THEN [pc |-> label.pc[1], s |-> s]
  ELSE [pc |-> PC_max_value, s |-> [s EXCEPT !.labels[id + 1].reloc = Append(@, Sink_pc(s))]]

BrKinds == {"Br", "BrIfEqz", "BrIfNez"}

\* A resolve_label that records the label's PC and patches nothing.
resolve_label_unpatched(s, id) == [s EXCEPT !.labels[id + 1].pc = <<Sink_pc(s)>>]

\* Sink::resolve_label: the label gets the current PC, and every instruction
\* noted in reloc is patched with it; unreachable!() if one of them is not a
\* branch.
resolve_label(s, id) ==
  LET label_pc == Sink_pc(s)
      reloc == s.labels[id + 1].reloc
      noted == {reloc[k] : k \in 1..Len(reloc)}
  IN [s EXCEPT !.labels[id + 1].pc = <<label_pc>>,
               !.code = [i \in 1..Len(s.code) |->
                           IF (i - 1) \in noted /\ s.code[i].op \in BrKinds
                           THEN Ins(s.code[i].op, label_pc) ELSE s.code[i]],
               !.panic = @ \/ \E ref_pc \in noted :
                                \/ ref_pc >= Len(s.code)
                                \/ s.code[ref_pc + 1].op \notin BrKinds]

\* Sink::emit
emit(s, op) == [s EXCEPT !.code = Append(@, op)]

\* Sink::emit_br
emit_br(s, kind, label) ==
  LET r == ref_label(s, label) IN emit(r.s, Ins(kind, r.pc))

\* The ghost entry of an instruction that is not a branch: no label; that of
\* a branch is <<the label it referred to>>.
NoLabel == <<>>

\* The sink once compile_function has pushed the function block.
SinkInit ==
  sink = [s |-> LET l == new_label(Sink_new) IN push_block(l.s, Block_Block(l.id)),
          refs |-> <<>>, n |-> 0, op |-> "new", arg |-> 0, status |-> "open",
          open |-> <<0>>, starts |-> <<0>>, ends |-> << <<>> >>, brs |-> <<>>]

\* What the body's `br d` at the innermost open block aims at: the kind of
\* the block d levels out and which of the body's blocks it is (they are
\* numbered as they open, the function block being 0).
BrAim(arg) ==
  [kind |-> sink.s.blocks[Len(sink.s.blocks) - arg].kind,
   id |-> sink.open[Len(sink.open) - arg]]

\* The sink variable after an arm has left the Sink as s2: `label` is what the
\* instruction the arm emitted (if it did) referred to.  Beside the Sink the
\* variable keeps the history the claims are stated over: the blocks that
\* are open, by number (open, parallel to s.blocks; an Else goes on under the
\* number of its If); for every block the PC at which its body starts
\* (starts) and, once its `end` is translated, the PC at which the code after
\* it starts (ends); and for every instruction emitted for a `br d` what the
\* branch aims at (brs, <<>> for the other instructions).
Translated(s2, op, arg, label, status) ==
  [s |-> s2,
   refs |-> IF Len(s2.code) > Len(sink.refs) THEN Append(sink.refs, label) ELSE sink.refs,
   n |-> sink.n + 1, op |-> op, arg |-> arg,
   status |-> IF s2.panic THEN "panic" ELSE status,
   open |-> CASE op \in {"Block", "Loop", "If"} -> Append(sink.open, Len(sink.starts))
              [] op = "End" -> SubSeq(sink.open, 1, Len(sink.open) - 1)
              [] OTHER -> sink.open,
   starts |-> IF op \in {"Block", "Loop", "If"}
              THEN Append(sink.starts, Len(s2.code)) ELSE sink.starts,
   ends |-> CASE op \in {"Block", "Loop", "If"} -> Append(sink.ends, <<>>)
              [] op = "End" ->
                   [sink.ends EXCEPT ![sink.open[Len(sink.open)] + 1] = <<Len(sink.s.code)>>]
              [] OTHER -> sink.ends,
   brs |-> IF Len(s2.code) > Len(sink.brs)
           THEN Append(sink.brs, IF op = "Br" THEN <<BrAim(arg)>> ELSE <<>>)
           ELSE sink.brs]

\* compile_function is in its loop, at an opcode of the body.
Translating == sink.status = "open" /\ sink.n < MaxOps

\* Block(_)
TranslateBlock ==
  /\ UNCHANGED notSink
  /\ Translating /\ Len(sink.s.blocks) < MaxBlocks
  /\ LET l == new_label(sink.s) IN
     sink' = Translated(push_block(l.s, Block_Block(l.id)), "Block", 0, NoLabel, "open")

\* Loop(_)
TranslateLoop ==
  /\ UNCHANGED notSink
  /\ Translating /\ Len(sink.s.blocks) < MaxBlocks
  /\ LET head == new_label(sink.s) IN
     sink' = Translated(resolve_label(push_block(head.s, Block_Loop(head.id)), head.id),
                        "Loop", 0, NoLabel, "open")

\* If(_)
TranslateIf ==
  /\ UNCHANGED notSink
  /\ Translating /\ Len(sink.s.blocks) < MaxBlocks
  /\ LET if_not == new_label(sink.s)
         end_label == new_label(if_not.s)
     IN sink' = Translated(emit_br(push_block(end_label.s, Block_If(end_label.id, if_not.id)),
                                   "BrIfEqz", if_not.id),
                           "If", 0, <<if_not.id>>, "open")

\* Else: validation ensures that the innermost block is an If.
TranslateElse ==
  /\ UNCHANGED notSink
  /\ Translating
  /\ LET p == pop_block(sink.s) IN
     /\ p.ok /\ p.block.kind = "If"
     /\ sink' = Translated(push_block(resolve_label(emit_br(p.s, "Br", p.block.end_label),
                                                    p.block.if_not),
                                      Block_Else(p.block.end_label)),
                           "Else", 0, <<p.block.end_label>>, "open")

\* End
TranslateEnd ==
  /\ UNCHANGED notSink
  /\ Translating
  /\ LET p == pop_block(sink.s)
         s1 == CASE p.block.kind = "Block" -> resolve_label(p.s, p.block.end_label)
                 [] p.block.kind = "Loop" -> p.s
                 [] p.block.kind = "If" ->
                      resolve_label(resolve_label(p.s, p.block.if_not), p.block.end_label)
                 [] p.block.kind = "Else" -> resolve_label(p.s, p.block.end_label)
     IN /\ p.ok
        /\ sink' = IF is_stack_empty(s1)
                   THEN Translated(emit(s1, Ins("Return", 0)), "End", 0, NoLabel, "done")
                   ELSE Translated(s1, "End", 0, NoLabel, "open")

\* Br(block_depth)
TranslateBr ==
  /\ UNCHANGED notSink
  /\ Translating
  /\ \E block_depth \in 0..(Len(sink.s.blocks) - 1) :
       LET dst == br_destination(sink.s, block_depth) IN
       /\ dst.ok
       /\ sink' = Translated(emit_br(sink.s, "Br", dst.label), "Br", block_depth,
                             <<dst.label>>, "open")

\* BrIf(block_depth): the arm ends in todo!(""), which panics.
TranslateBrIf ==
  /\ UNCHANGED notSink
  /\ Translating
  /\ \E block_depth \in 0..(Len(sink.s.blocks) - 1) :
       LET dst == br_destination(sink.s, block_depth) IN
       /\ dst.ok
       /\ sink' = Translated(emit_br(sink.s, "BrIfNez", dst.label), "BrIf", block_depth,
                             <<dst.label>>, "panic")

\* An opcode whose arm is Some(instruction): the instruction is emitted.
TranslatePlain ==
  /\ UNCHANGED notSink
  /\ Translating
  /\ sink' = Translated(emit(sink.s, Ins("GetLocal", 0)), "GetLocal", 0, NoLabel, "open")

SinkNext ==
  \/ TranslateBlock \/ TranslateLoop \/ TranslateIf \/ TranslateElse \/ TranslateEnd
  \/ TranslateBr \/ TranslateBrIf \/ TranslatePlain

-----------------------------------------------------------------------------
(* Claims about the translation to the threaded ISA, checked under SpecSink. *)

\* The branch instructions of the emitted code, by PC.
Branches == {pc \in 0..(Len(sink.s.code) - 1) : sink.s.code[pc + 1].op \in BrKinds}

\* C22: once a well-nested body is translated (its last End has emitted the
\* Return), every Br, BrIfEqz and BrIfNez of the code carries a resolved
\* target: not the PC::MAX placeholder, but the PC recorded for the label the
\* branch referred to, and that PC is an index into the emitted code.
C22_BranchesResolved ==
  sink.status = "done"
    => \A pc \in Branches :
         LET target == sink.s.code[pc + 1].arg
             label == sink.s.labels[sink.refs[pc + 1][1] + 1]
         IN /\ target # PC_max_value
            /\ label.pc = <<target>>
            /\ target < Len(sink.s.code)

\* C22 happens: a translated body holds a forward branch, patched when its
\* label was resolved, and a backward branch to a loop head.
C22_Witness ==
  /\ sink.status = "done"
  /\ \E pc \in Branches : sink.s.code[pc + 1].arg > pc
  /\ \E pc \in Branches : sink.s.code[pc + 1].arg <= pc

\* C23: translating `br_if d` completes normally: one BrIfNez aimed at the
\* br_destination of the block d levels out is emitted and the translation
\* goes on with the next opcode.
C23_BrIfTranslates ==
  sink.op = "BrIf"
    => /\ sink.status = "open"
       /\ sink.s.code[Len(sink.s.code)].op = "BrIfNez"
       /\ sink.refs[Len(sink.refs)][1]
            = Block_br_destination(sink.s.blocks[Len(sink.s.blocks) - sink.arg])

\* C31: a `br d` whose target block is a Loop jumps to the PC of the first
\* instruction of that loop's body, a PC not greater than the branch's own;
\* and, once the body is translated, a `br d` whose target is a Block, an If
\* or an Else jumps to the PC of the first instruction emitted after that
\* block's `end`.
C31_BrJumps ==
  \A pc \in 0..(Len(sink.brs) - 1) :
    sink.brs[pc + 1] # <<>>
      => LET to == sink.brs[pc + 1][1]
             target == sink.s.code[pc + 1].arg
         IN /\ sink.s.code[pc + 1].op = "Br"
            /\ to.kind = "Loop" => target = sink.starts[to.id + 1] /\ target <= pc
            /\ to.kind # "Loop" /\ sink.status = "done"
                 => sink.ends[to.id + 1] = <<target>>

\* C31 happens: a translated body holds a `br` to a loop, which jumps
\* backward, and a `br` from inside that loop to a block that is not a loop,
\* which jumps forward.
C31_Witness ==
  /\ sink.status = "done"
  /\ \E pc \in 0..(Len(sink.brs) - 1) :
       /\ sink.brs[pc + 1] # <<>> /\ sink.brs[pc + 1][1].kind = "Loop"
       /\ sink.s.code[pc + 1].arg <= pc
  /\ \E pc \in 0..(Len(sink.brs) - 1) :
       /\ sink.brs[pc + 1] # <<>>
       /\ sink.brs[pc + 1][1].kind \in {"Block", "If", "Else"}
       /\ sink.s.code[pc + 1].arg > pc

-----------------------------------------------------------------------------
(* SpecBranch: bodies holding an `if`, translated by compile_function of   *)
(* src/src/isa.rs and executed by run_function of src/src/function.rs, one *)
(* instruction at a time.                                                  *)

\* The opcodes whose arm of compile_function is Some(the instruction of the
\* same name).
PlainOps == {"Return", "Call", "Unreachable", "GetLocal", "SetLocal", "TeeLocal",
             "I64Const", "I64Add"}

\* One turn of the loop of compile_function: the arm of `op` and the emit of
\* what it yields.  ok is FALSE when `?` has returned an Err.
compile_op(s, op) ==
  LET done(s2) == [ok |-> TRUE, s |-> s2]
      failed == [ok |-> FALSE, s |-> s]
      panic(s2) == [ok |-> TRUE, s |-> [s2 EXCEPT !.panic = TRUE]]
  IN CASE op.op = "Block" ->
            LET l == new_label(s) IN done(push_block(l.s, Block_Block(l.id)))
       [] op.op = "Loop" ->
            LET head == new_label(s) IN
            done(resolve_label(push_block(head.s, Block_Loop(head.id)), head.id))
       [] op.op = "If" ->
            LET if_not == new_label(s)
                end_label == new_label(if_not.s)
            IN done(emit_br(push_block(end_label.s, Block_If(end_label.id, if_not.id)),
                            "BrIfEqz", if_not.id))
       [] op.op = "Else" ->
            LET p == pop_block(s) IN
            IF ~p.ok THEN failed
            ELSE IF p.block.kind # "If" THEN panic(p.s)
            ELSE done(push_block(resolve_label(emit_br(p.s, "Br", p.block.end_label),
                                               p.block.if_not),
                                 Block_Else(p.block.end_label)))
       [] op.op = "End" ->
            LET p == pop_block(s)
                s1 == CASE p.block.kind = "Block" -> resolve_label(p.s, p.block.end_label)
                        [] p.block.kind = "Loop" -> p.s
                        [] p.block.kind = "If" ->
                             resolve_label(resolve_label(p.s, p.block.if_not),
                                           p.block.end_label)
                        [] p.block.kind = "Else" -> resolve_label(p.s, p.block.end_label)
            IN IF ~p.ok THEN failed
               ELSE IF is_stack_empty(s1) THEN done(emit(s1, Ins("Return", 0)))
               ELSE done(s1)
       [] op.op = "Br" ->
            LET dst == br_destination(s, op.arg) IN
            IF ~dst.ok THEN failed ELSE done(emit_br(s, "Br", dst.label))
       [] op.op = "BrIf" ->
            LET dst == br_destination(s, op.arg) IN
            IF ~dst.ok THEN failed ELSE panic(emit_br(s, "BrIfNez", dst.label))
       [] op.op = "Nop" -> done(s)
       [] op.op \in PlainOps -> done(emit(s, Ins(op.op, op.arg)))

\* compile_function after the first n opcodes of code: the function block is
\* pushed, then the loop runs until an arm returns an Err or panics.
RECURSIVE compile_ops(_, _)
compile_ops(code, n) ==
  IF n = 0
  THEN [ok |-> TRUE, s |-> LET l == new_label(Sink_new) IN push_block(l.s, Block_Block(l.id))]
  ELSE LET before == compile_ops(code, n - 1) IN
       IF ~before.ok \/ before.s.panic THEN before ELSE compile_op(before.s, code[n])

\* isa::compile_function: Ok(sink.into_inner()) after the last opcode.
compile_body(code) ==
  LET r == compile_ops(code, Len(code)) IN
  [ok |-> r.ok /\ ~r.s.panic, code |-> r.s.code]

\* The values a caller passes as the condition: zero and two non-zero ones.
Conds == {0, 1, 2}

\* The arms of the `if`: nothing, a store to local 1, an `if/else` of its own
\* on local 1, and a `br 0` that leaves the arm before its last opcodes.
Arms ==
  { <<>>,
    << Op("I64Const", 1), Op("SetLocal", 1) >>,
    << Op("GetLocal", 1), Op("If", 0), Op("I64Const", 1), Op("SetLocal", 0),
       Op("Else", 0), Op("I64Const", 0), Op("SetLocal", 0), Op("End", 0) >>,
    << Op("Br", 0), Op("I64Const", 1), Op("SetLocal", 1) >> }

\* f(c, x) -> i64: `if (c) A else B end` or `if (c) A end`, then x.  A body
\* is <<A, <<B>> >> or <<A, <<>> >>.
IfBody(a, b) ==
  << Op("GetLocal", 0), Op("If", 0) >> \o a
    \o (IF b = <<>> THEN <<>> ELSE << Op("Else", 0) >> \o b[1])
    \o << Op("End", 0), Op("GetLocal", 1), Op("End", 0) >>

\* Where the parts of IfBody(a, b) are in the translated code: the BrIfEqz of
\* the `if` (at), the instructions of A (from a_first, before a_end), those
\* of B (from b_first, before b_end), and the first instruction after `end`.
IfParts(a, b) ==
  LET code == IfBody(a, b)
      pc(n) == Sink_pc(compile_ops(code, n).s)
      else_at == 2 + Len(a) + 1
  IN [at |-> pc(1), a_first |-> pc(2), a_end |-> pc(2 + Len(a)),
      b_first |-> IF b = <<>> THEN pc(2 + Len(a)) ELSE pc(else_at),
      b_end |-> IF b = <<>> THEN pc(2 + Len(a)) ELSE pc(else_at + Len(b[1])),
      after |-> IF b = <<>> THEN pc(2 + Len(a) + 1) ELSE pc(else_at + Len(b[1]) + 1)]

\* No call has been made yet.
BranchInit ==
  exec = [op |-> "new", a |-> <<>>, b |-> <<>>, cond |-> 0,
          m |-> Machine(State_new, new_with_limit(StoreLimit)), trace |-> <<>>,
          calls |-> <<>>, ret |-> <<>>]

\* Function::new translates the body; Store::call on a fresh instance pushes
\* the params and enters Function::call.
BranchCall ==
  /\ UNCHANGED notBranch
  /\ exec.op = "new"
  /\ \E a \in Arms : \E b \in {<<>>} \cup {<<x>> : x \in Arms} :
     \E cond \in Conds : \E x \in Vals :
       LET code == compile_body(IfBody(a, b))
           func == Fn(2, "I64", 0, code.code)
           pushed == push_params(new_with_limit(StoreLimit),
                                 << [type |-> "I64", v |-> cond], [type |-> "I64", v |-> x] >>)
       IN /\ code.ok /\ pushed.ok
          /\ exec' = [op |-> "call", a |-> a, b |-> b, cond |-> cond,
                      m |-> Function_call(Machine(State_new, pushed.s), func),
                      trace |-> <<>>, calls |-> <<>>, ret |-> <<>>]

\* VMInstance::call of an export of file "K" on a fresh instance, up to the
\* first instruction of the function.
FrameCall ==
  /\ UNCHANGED notBranch
  /\ exec.op = "new"
  /\ \E k \in 1..Len(CallExports) : \E a \in Vals :
       LET b == Store_call_begin(CallState, new_with_limit(StoreLimit), CallExports[k][2],
                                 << [type |-> "I64", v |-> a] >>)
       IN /\ ~b.done
          /\ exec' = [op |-> "frame", a |-> <<>>, b |-> <<>>, cond |-> a,
                      m |-> b.m, trace |-> <<>>, calls |-> <<>>, ret |-> <<>>]

\* The instruction run_function is at.
BranchAt == Top(exec.m).func.code[Top(exec.m).pc + 1]

\* One instruction of run_function; trace notes its PC and the length of the
\* stack it found, and calls notes, for a Call, the stack the Call found and
\* the function called.
BranchStep ==
  /\ UNCHANGED notBranch
  /\ exec.op # "new" /\ exec.m.status = "run"
  /\ exec' = [exec EXCEPT !.m = run_function(exec.m),
                          !.trace = Append(@, [pc |-> Top(exec.m).pc,
                                               len |-> Len(exec.m.s.stack)]),
                          !.calls = IF BranchAt.op = "Call"
                                    THEN Append(@, [s |-> exec.m.s, func_addr |-> BranchAt.arg])
                                    ELSE @]

\* run_function has returned to Function::call, which returns to the Call arm
\* of the caller (or to Store::call); ret notes what the Call found, what the
\* callee returned and what the Call arm has left.
BranchReturn ==
  /\ UNCHANGED notBranch
  /\ exec.op # "new" /\ exec.m.status = "return"
  /\ LET m == Function_return(exec.m) IN
     exec' = [exec EXCEPT !.m = m,
                          !.calls = IF @ = <<>> THEN @ ELSE SubSeq(@, 1, Len(@) - 1),
                          !.ret = IF exec.calls = <<>> THEN <<>>
                                  ELSE << [pre |-> exec.calls[Len(exec.calls)].s,
                                           func_addr |-> exec.calls[Len(exec.calls)].func_addr,
                                           val |-> exec.m.ret, post |-> m.s,
                                           trap |-> m.trap] >>]

BranchNext == BranchCall \/ FrameCall \/ BranchStep \/ BranchReturn

-----------------------------------------------------------------------------
(* Claims about translated `if`s at run time, checked under SpecBranch.    *)

\* The PCs executed after the BrIfEqz of the `if`, in order.
AfterIf == [i \in 1..(Len(exec.trace) - 2) |-> exec.trace[i + 2].pc]

\* C32: the `if` pops its condition once.  With a non-zero condition control
\* goes to A's first instruction, no instruction of B is ever executed, and
\* the first instruction executed outside A (the Br that Else put after A
\* aside) is the one after `end`; with a zero condition control goes to B's
\* first instruction (to the one after `end` when there is no else), no
\* instruction of A is executed, and the first instruction executed outside
\* B is the one after `end`.
C32_IfElse ==
  exec.op = "call" /\ Len(exec.trace) >= 2
    => LET p == IfParts(exec.a, exec.b)
           A == p.a_first..(p.a_end - 1)
           B == p.b_first..(p.b_end - 1)
           taken == IF exec.cond # 0 THEN A \cup (IF exec.b = <<>> THEN {} ELSE {p.a_end})
                    ELSE B
           other == IF exec.cond # 0 THEN B ELSE A
           left == {i \in 1..Len(AfterIf) : AfterIf[i] \notin taken}
       IN /\ exec.trace[2].pc = p.at
          /\ Len(exec.trace) >= 3 => exec.trace[3].len = exec.trace[2].len - 1
          /\ \A i \in 1..Len(AfterIf) : AfterIf[i] \notin other
          /\ Len(AfterIf) >= 1
               => AfterIf[1] = (IF exec.cond # 0 THEN p.a_first ELSE p.b_first)
          /\ \A i \in left : (\A j \in left : i <= j) => AfterIf[i] = p.after

\* C32 happens: a call with a non-zero condition has run through a non-empty
\* A and returned while B is not empty, and (in another run) the same with a
\* zero condition; the witness is the first.
C32_Witness ==
  /\ exec.op = "call" /\ exec.m.status = "done"
  /\ exec.cond # 0 /\ exec.a # <<>> /\ exec.b # <<>> /\ exec.b[1] # <<>>
  /\ \E i \in 1..Len(AfterIf) : AfterIf[i] = IfParts(exec.a, exec.b).a_first
  /\ \E i \in 1..Len(AfterIf) : AfterIf[i] = IfParts(exec.a, exec.b).after

\* C33: after a Call to a function of arity n has returned, the caller's bp
\* is what it was before the Call, and the caller's cells are those the Call
\* found without the n arguments on top, followed by exactly one cell (the
\* value returned) if the callee declares a return type and by none if not:
\* the caller's locals and remaining operand cells are unchanged.
C33_CallFrame ==
  exec.ret # <<>> /\ exec.ret[1].trap = "none"
    => LET r == exec.ret[1]
           callee == FunctionOf(get_function(exec.m.state, r.func_addr).func)
           n == callee.param_count
       IN /\ r.post.bp = r.pre.bp
          /\ Len(r.pre.stack) >= n
          /\ r.post.stack
               = SubSeq(r.pre.stack, 1, Len(r.pre.stack) - n)
                   \o (IF callee.ret_type # "none" THEN r.val ELSE <<>>)
          /\ callee.ret_type # "none" => Len(r.val) = 1

\* C33 happens: a Call of a callee with a return type and two params has
\* returned to a caller that had an operand cell below the arguments.
C33_Witness ==
  /\ exec.ret # <<>> /\ exec.ret[1].trap = "none"
  /\ exec.ret[1].func_addr = 1
  /\ Len(exec.ret[1].pre.stack) - exec.ret[1].pre.bp > 3
  /\ Len(exec.ret[1].post.stack) = Len(exec.ret[1].pre.stack) - 1

-----------------------------------------------------------------------------
(* SpecCompile: Compiler::compile_function of src/src/compiler.rs on the   *)
(* bodies made of block, loop, if, else, end and a constant, one round of  *)
(* the loop of compile_block at a time.                                    *)

\* The most opcodes of a body.
MaxBody == 7

\* compile_function has made State::new() and entered compile_block for the
\* function's own block; no opcode is read yet.
CompileInit ==
  comp = [code |-> <<>>, cs |-> compile_block_enter(CState_new, "Block", <<>>, <<>>),
          op |-> "new", entered |-> 0, finished |-> <<>>]

\* One round of the loop of compile_block on the opcode at state.pc, the
\* body being `code`.  finished is the Block the round has closed, if it has
\* (<<>> if not), and entered the depth counter the round found.
Compiled(code) ==
  LET cs == compile_block(code, "I64", comp.cs)
      top == comp.cs.open[Len(comp.cs.open)].block
  IN [code |-> code, cs |-> cs, op |-> code[comp.cs.pc + 1].op,
      entered |-> comp.cs.depth,
      finished |-> IF cs.status \in {"go", "done"}
                      /\ code[comp.cs.pc + 1].op \in {"End", "Else"}
                   THEN <<top>> ELSE <<>>]

\* The round is at the next opcode of the body.
Compiling == comp.cs.status = "go" /\ comp.cs.pc = Len(comp.code) /\ Len(comp.code) < MaxBody

\* Block(_)
CompileBlock ==
  /\ UNCHANGED notCompile
  /\ Compiling
  /\ comp' = Compiled(Append(comp.code, Op("Block", 0)))

\* Loop(_)
CompileLoop ==
  /\ UNCHANGED notCompile
  /\ Compiling
  /\ comp' = Compiled(Append(comp.code, Op("Loop", 0)))

\* If(_)
CompileIf ==
  /\ UNCHANGED notCompile
  /\ Compiling
  /\ comp' = Compiled(Append(comp.code, Op("If", 0)))

\* Else in the body; and the first round of the Else block compile_if has
\* entered, which finds state.pc still at the Else.
CompileElse ==
  /\ UNCHANGED notCompile
  /\ comp.cs.status = "go"
  /\ \/ Compiling /\ comp' = Compiled(Append(comp.code, Op("Else", 0)))
     \/ comp.cs.pc < Len(comp.code) /\ comp' = Compiled(comp.code)

\* End
CompileEnd ==
  /\ UNCHANGED notCompile
  /\ Compiling
  /\ comp' = Compiled(Append(comp.code, Op("End", 0)))

\* I64Const(val)
CompileConst ==
  /\ UNCHANGED notCompile
  /\ Compiling
  /\ comp' = Compiled(Append(comp.code, Op("I64Const", 1)))

CompileNext ==
  \/ CompileBlock \/ CompileLoop \/ CompileIf \/ CompileElse \/ CompileEnd
  \/ CompileConst

-----------------------------------------------------------------------------
(* Claims about the closure translator, checked under SpecCompile.         *)

\* The blocks of the body that are open after its last opcode, the function's
\* own block included.
OpenBlocks ==
  1 + Cardinality({i \in 1..Len(comp.code) : comp.code[i].op \in {"Block", "Loop", "If"}})
    - Cardinality({i \in 1..Len(comp.code) : comp.code[i].op = "End"})

-----------------------------------------------------------------------------
(* The specifications.                                                     *)

Init == StackInit /\ VMInit /\ ThreadedInit /\ ClosureInit /\ InstancesInit
        /\ RecursionInit /\ NumericInit /\ ReturnInit /\ SinkInit /\ BranchInit
        /\ CompileInit

SpecStack == Init /\ [][StackNext]_vars

SpecVM == Init /\ [][VMNext]_vars

SpecThreaded == Init /\ [][ThreadedNext]_vars

SpecClosure == Init /\ [][ClosureNext]_vars

SpecInstances == Init /\ [][InstancesNext]_vars

SpecRecursion == Init /\ [][RecursionNext]_vars

SpecNumeric == Init /\ [][NumericNext]_vars

SpecReturn == Init /\ [][ReturnNext]_vars

SpecSink == Init /\ [][SinkNext]_vars

SpecBranch == Init /\ [][BranchNext]_vars

SpecCompile == Init /\ [][CompileNext]_vars

Next ==
  \/ StackNext \/ VMNext \/ ThreadedNext \/ ClosureNext \/ InstancesNext
  \/ RecursionNext \/ NumericNext \/ ReturnNext \/ SinkNext \/ BranchNext
  \/ CompileNext

Spec == Init /\ [][Next]_vars

=============================================================================
